---- MODULE Spec2Model ----
(***************************************************************************)
(* cmmio: single-producer / multi-consumer message queue on three memory   *)
(* mapped files (index.mm, data.mm, control.mm) and two named semaphores.  *)
(* The model follows source/main/cpp/c_mmmq.cpp: publish and                *)
(* consumer_drain are modelled store by store / load by load in program    *)
(* order, register_consumer as lock, scan, unlock.                         *)
(***************************************************************************)
EXTENDS Integers, Sequences, FiniteSets, TLC

(***************************************************************************)
(* Program constants                                                       *)
(***************************************************************************)
MMQ_ALIGN == 8
SizeofIndexHeader == 32
SizeofIndexEntry == 24
SizeofDataHeader == 32
SizeofSlotName == 44
GrowEntries == 65536

(***************************************************************************)
(* Bounds of the model                                                     *)
(***************************************************************************)
MaxPublish == 3
MaxStartSeq == 2
\* the publish calls made while the registry is exercised
MaxRegPublish == 1
MaxRestart == 1
\* the bits of the u32 counter of wait_for_new_timeout in the model
TimerBits == 12

\* bits of the u32 field m_off8 in the specification with a narrow field
Off8Bits == 1
InitEntries == 2

(***************************************************************************)
(* Inputs                                                                  *)
(***************************************************************************)
\* config_t of the session: the index file starts with room for
\* InitEntries entries; the data file starts at 59 bytes, i.e. 27 payload
\* bytes, so that a publish can fit, can fit after the 10% growth, and can
\* exceed the 10% growth.
index_initial_bytes == SizeofIndexHeader + InitEntries * SizeofIndexEntry
data_initial_bytes == SizeofDataHeader + 27
max_consumers == 2

Rep(ch, n) == [i \in 1..n |-> ch]

\* the messages publish is called with: length 0, 5 and 16
Msg0 == << >>
Msg5 == <<1, 2, 3, 4, 5>>
Msg16 == [i \in 1..16 |-> 1 + (i % 7)]

\* consumer names, as sequences of character codes: "a", one of 43
\* characters (the longest that fits the slot with its terminator), one of
\* 44 characters with the same first 43, one of 45.
Names == {<<97>>, Rep(120, 43), Rep(120, 44), Rep(120, 43) \o <<121, 122>>}

StartSeqs == {0, MaxStartSeq}

Consumers == {"c1", "c2"}

NUL == 0

(***************************************************************************)
(* State                                                                   *)
(***************************************************************************)
VARIABLES
    ih,          \* index_header_t in index.mm: next_seq, entry_count
    entries,     \* index_entry_t entries[] in index.mm
    index_fsize, \* size of index.mm in bytes
    dh,          \* data_header_t in data.mm: write_pos, file_size
    payload,     \* payload bytes of data.mm, by offset in the payload region
    data_fsize,  \* size of data.mm in bytes
    ch,          \* control_header_t in control.mm: max_consumers, notify_seq
    slots,       \* consumer_slot_t slots[] in control.mm
    new_sem,     \* count of the notify semaphore
    reg_sem,     \* count of the registry-lock semaphore
    prod,        \* the producer: its handle_t and its position inside publish
    cons,        \* the consumers: each one's handle_t and position in its call
    pubs,        \* history: the publish calls made, in order
    delivered,   \* history: per consumer, what consumer_drain returned true with
                 \* since its last registration
    claimed      \* history: per slot, the name and start_seq it was claimed with

filevars == <<ih, entries, index_fsize, dh, payload, data_fsize>>
ctlvars == <<ch, slots>>
semvars == <<new_sem, reg_sem>>
vars == <<ih, entries, index_fsize, dh, payload, data_fsize, ch, slots,
          new_sem, reg_sem, prod, cons, pubs, delivered, claimed>>

(***************************************************************************)
(* Helpers                                                                 *)
(***************************************************************************)
Max(a, b) == IF a > b THEN a ELSE b

\* no rounding
align_up_none(x, a) == x

\* line 408: (x + (a - 1)) & ~(a - 1), a a power of two
align_up_u64(x, a) == ((x + (a - 1)) \div a) * a

\* (u32)x. The model's integers are 32-bit signed, so the cast keeps 30 bits
\* here; no offset of a run within the bounds reaches 2^30.
U32Modulus == 2 ^ 30
\* the cast keeps one bit only
AsU1(x) == x % 2

AsU32(x) == x % U32Modulus

\* the i-th char of a C string given as the sequence of its characters
CharAt(s, i) == IF i <= Len(s) THEN s[i] ELSE NUL

\* strncpy(dst, src, n): n bytes of dst are written, src and then NULs
strncpy(dst, src, n) == [i \in 1..Len(dst) |-> IF i <= n THEN CharAt(src, i) ELSE dst[i]]

\* strncmp(buf, s, n) == 0: equal on the first n chars, or up to the first NUL
strncmp_eq(buf, s, n) ==
    LET nuls == {i \in 1..n : CharAt(buf, i) = NUL}
        last == IF nuls = {} THEN n ELSE CHOOSE i \in nuls : \A j \in nuls : i <= j
    IN  \A i \in 1..last : CharAt(buf, i) = CharAt(s, i)

ZeroEntry == [seq |-> 0, off8 |-> 0, len |-> 0]
ZeroSlot == [active |-> 0, last_seq |-> 0, name |-> Rep(NUL, SizeofSlotName)]

\* lines 83-84: char m_new_entries_sem[64 - 12], m_registry_lock_sem[64 - 12]
SizeofSemName == 52

\* the semaphore names init_producer is given when the caller names no
\* others: "/n" and "/r"
NewSemName == <<47, 110>>
RegSemName == <<47, 114>>

\* the characters of the C string a char array holds: those before the
\* first NUL
CStr(buf) ==
    LET nuls == {i \in 1..Len(buf) : buf[i] = NUL}
        n == IF nuls = {} THEN Len(buf)
             ELSE (CHOOSE i \in nuls : \A j \in nuls : i <= j) - 1
    IN  SubSeq(buf, 1, n)

\* error codes (enum EErrorCodes)
MMQ_ERR_OK == 0
MMQ_ERR_INDEX_OPEN_RW == -1
MMQ_ERR_DATA_OPEN_RW == -2
MMQ_ERR_CONTROL_OPEN_RW == -3
MMQ_ERR_INDEX_SANITY == -4
MMQ_ERR_DATA_SANITY == -5
MMQ_ERR_CONTROL_SANITY == -6
MMQ_ERR_SEMAPHORE_OPEN == -7
MMQ_ERR_REGISTRY_LOCK == -8
MMQ_ERR_CONSUMER_SLOTS_FULL == -9
MMQ_ERR_INDEX_EXTEND == -10
MMQ_ERR_DATA_EXTEND == -11
MMQ_ERR_NO_MSG_AVAILABLE == -12
MMQ_ERR_TIMEDOUT == -13

\* the payload offsets and entry indices a run can touch (the longest
\* message spans 16 bytes)
PayloadOffsets == 0..(MaxPublish * 16 - 1)
EntryIndices == 0..(MaxPublish - 1)

(***************************************************************************)
(* Init: fresh files, after create_handle and init_producer; no consumer   *)
(* attached yet.                                                           *)
(***************************************************************************)
\* m_ih tells where the producer's index header pointer leads: into the
\* current mapping of index.mm ("mapped"), into no mapping ("unmapped"), or
\* into memory that is not index.mm ("foreign"), where stray_next_seq is the
\* m_next_seq field found there.
\* the queue state publish is specified over. In the producer handle, err is
\* the code the last call returned, failed the extension that failed in it
\* ("none", "data" or "index"), before the queue state when the call was
\* entered, and leaked the number of calls that returned after storing
\* write_pos without publishing.
QueueState ==
    [next_seq |-> ih.next_seq, entry_count |-> ih.entry_count, entries |-> entries,
     write_pos |-> dh.write_pos, notify_seq |-> ch.notify_seq, new_sem |-> new_sem]

\* what index.mm and data.mm hold, and the number of publish calls made
FileState ==
    [next_seq |-> ih.next_seq, entry_count |-> ih.entry_count, entries |-> entries,
     write_pos |-> dh.write_pos, file_size |-> dh.file_size, payload |-> payload,
     calls |-> 0]

\* the producer handle when init_producer has returned. new_sem_name,
\* reg_sem_name and config_max are the arguments of init_producer; session
\* counts the init_producer calls after the first and at_init is what the
\* files held when the last one returned.
InitProducerHandle ==
    [pc |-> "idle", msg |-> << >>, pos |-> 0, span |-> 0, end |-> 0, seq |-> 0,
     m_index_size |-> index_initial_bytes, m_data_size |-> data_initial_bytes,
     m_ih |-> "mapped", stray_next_seq |-> 0,
     err |-> MMQ_ERR_OK, failed |-> "none", before |-> QueueState,
     leaked |-> 0,
     new_sem_name |-> NewSemName, reg_sem_name |-> RegSemName,
     config_max |-> max_consumers, session |-> 0, at_init |-> FileState]

\* line 487: msg_data = nullptr
nullptr == -1

\* a consumer handle before attach_consumer and after close_handle. slot is
\* the caller's variable that register_consumer fills in; name, start_seq,
\* nseq, idx, e are the arguments and locals of the call in progress; err is
\* the code register_consumer returned, got what consumer_drain or
\* wait_for_new returned; reg_seq is the slot's last_seq when the last
\* registration returned and reg_name the name it was given; msg_data (an
\* offset into the payload region, or nullptr) and msg_len are the caller's
\* variables that consumer_drain fills in. timeout_us and waited_us are the
\* argument and the local of wait_for_new_timeout, sem_at_entry and
\* notify_at_entry the count of the notify semaphore and notify_seq when it
\* was called; waits counts the waits of the handle that returned with a
\* token. deallocs counts the times close_handle has handed
\* the handle's three mappedfile_t objects to the allocator.
ClosedHandle ==
    [pc |-> "closed", m_index_size |-> 0, m_data_size |-> 0, slot |-> -1,
     name |-> << >>, start_seq |-> 0, nseq |-> 0, idx |-> 0, e |-> ZeroEntry,
     err |-> 0, got |-> "none", reg_seq |-> 0, deallocs |-> 0,
     reg_name |-> << >>, msg_data |-> nullptr, msg_len |-> 0,
     timeout_us |-> 0, waited_us |-> 0, sem_at_entry |-> 0, notify_at_entry |-> 0,
     waits |-> 0]

NoClaim == [name |-> << >>, start_seq |-> -1]

\* lines 23-25: the magic of each file (64-bit constants, kept by name)
MMQ_MAGIC_INDEX == "MMQ_MAGIC_INDEX"
MMQ_MAGIC_DATA == "MMQ_MAGIC_DATA"
MMQ_MAGIC_CONTROL == "MMQ_MAGIC_CONTROL"

\* the version init_producer stamps and attach_consumer expects
MMQ_VERSION == 1

\* lines 236-246, 263-274: init_producer creates index.mm and data.mm with
\* the configured sizes and writes their headers
InitFiles(index_bytes, data_bytes) ==
    /\ ih = [next_seq |-> 0, entry_count |-> 0, magic |-> MMQ_MAGIC_INDEX,
             version |-> MMQ_VERSION, align |-> MMQ_ALIGN]
    /\ entries = [s \in EntryIndices |-> ZeroEntry]
    /\ index_fsize = index_bytes
    /\ dh = [write_pos |-> 0, file_size |-> data_bytes - SizeofDataHeader,
             magic |-> MMQ_MAGIC_DATA, version |-> MMQ_VERSION, align |-> MMQ_ALIGN]
    /\ payload = [o \in PayloadOffsets |-> 0]
    /\ data_fsize = data_bytes

\* lines 276-316: control.mm, the semaphores, the handles; no call made yet
\* the handles and the history: no call made yet
InitHandles ==
    /\ cons = [c \in Consumers |-> ClosedHandle]
    /\ pubs = << >>
    /\ delivered = [c \in Consumers |-> << >>]
    /\ claimed = [i \in 0..(max_consumers - 1) |-> NoClaim]

\* lines 298-310: the control header after the memset and the stamps; each
\* semaphore name is copied with strncpy(dst, name, sizeof(dst) - 1)
StampedHeader(maxc, new_sem_name, reg_sem_name) ==
    [max_consumers |-> maxc, notify_seq |-> 0,
     magic |-> MMQ_MAGIC_CONTROL, version |-> MMQ_VERSION, align |-> MMQ_ALIGN,
     new_entries_sem |-> strncpy(Rep(NUL, SizeofSemName), new_sem_name,
                                 SizeofSemName - 1),
     registry_lock_sem |-> strncpy(Rep(NUL, SizeofSemName), reg_sem_name,
                                   SizeofSemName - 1)]

InitRest ==
    /\ ch = StampedHeader(max_consumers, NewSemName, RegSemName)
    /\ slots = [i \in 0..(max_consumers - 1) |-> ZeroSlot]
    /\ new_sem = 0
    /\ reg_sem = 1
    /\ InitHandles

Init ==
    /\ InitFiles(index_initial_bytes, data_initial_bytes)
    /\ InitRest
    /\ prod = InitProducerHandle

(***************************************************************************)
(* publish, store by store in program order                                *)
(***************************************************************************)
\* lines 416-431: compute pos, span, end; grow data.mm by 10% if end does
\* not fit. extend_size truncates the file to new_size (the new tail reads
\* as zeros) and remaps; the handle re-reads size and base.
\* an extension that maps fresh zero pages instead of the file
PayloadAfterExtendZeroed == [o \in PayloadOffsets |-> 0]

\* c_mmio.cpp extend_size 542-554: ftruncate to the larger size keeps the
\* bytes of the file, unmap syncs the writeable mapping, and map_rw maps the
\* same file MAP_SHARED; publish then takes the data header and payload
\* pointers from the new mapping (c_mmmq.cpp 427-430)
PayloadAfterExtend == payload

PublishBegin(msgs) ==
    /\ prod.pc = "idle"
    /\ Len(pubs) + prod.leaked < MaxPublish
    /\ \E msg \in msgs :
        LET len == Len(msg)
            pos == align_up_u64(dh.write_pos, MMQ_ALIGN)
            span == align_up_u64(len, MMQ_ALIGN)
            end == pos + span
            grow == end > dh.file_size
            new_size == (prod.m_data_size * 11) \div 10
        IN  /\ prod' = [prod EXCEPT !.pc = "copy", !.msg = msg, !.pos = pos,
                                    !.span = span, !.end = end,
                                    !.failed = "none", !.before = QueueState,
                                    !.m_data_size = IF grow THEN new_size ELSE @]
            /\ data_fsize' = IF grow THEN new_size ELSE data_fsize
            /\ dh' = IF grow THEN [dh EXCEPT !.file_size = new_size - SizeofDataHeader] ELSE dh
            /\ payload' = IF grow THEN PayloadAfterExtend ELSE payload
            /\ pubs' = Append(pubs, [msg |-> msg, pos |-> pos, fsize |-> dh'.file_size])
    /\ UNCHANGED <<ih, entries, index_fsize, ctlvars, semvars, cons, delivered, claimed>>

\* the bytes memcpy and memset leave in the payload region: msg, then zeros
\* up to span
CopiedByte(o) ==
    LET k == o - prod.pos
    IN  IF k < Len(prod.msg) THEN prod.msg[k + 1] ELSE 0

\* lines 433-436: memcpy(payload + pos, msg, len); memset of the padding.
\* When end exceeds file_size the stores past the end of the mapping are
\* outside the file: the process faults, or the bytes that lie inside the
\* file are stored and the others are not part of the file.
PublishCopy ==
    /\ prod.pc = "copy"
    /\ \/ /\ payload' = [o \in PayloadOffsets |->
                            IF o >= prod.pos /\ o < prod.end /\ o < dh.file_size
                            THEN CopiedByte(o) ELSE payload[o]]
          /\ prod' = [prod EXCEPT !.pc = "write_pos"]
       \/ /\ prod.end > dh.file_size
          /\ prod' = [prod EXCEPT !.pc = "crashed"]
          /\ UNCHANGED payload
    /\ UNCHANGED <<ih, entries, index_fsize, dh, data_fsize, ctlvars, semvars, cons,
                   pubs, delivered, claimed>>

\* line 437
PublishWritePos ==
    /\ prod.pc = "write_pos"
    /\ dh' = [dh EXCEPT !.write_pos = prod.end]
    /\ prod' = [prod EXCEPT !.pc = "index_room"]
    /\ UNCHANGED <<ih, entries, index_fsize, payload, data_fsize, ctlvars, semvars,
                   cons, pubs, delivered, claimed>>

\* where p->m_ih = p->m_index_base leads after extend_size has unmapped and
\* mapped index.mm again: m_index_base is the address cached at init
IndexPointerAfterRemap == {"mapped", "unmapped", "foreign"}

\* lines 440-453: seq = next_seq; grow index.mm when entry seq does not fit
\* in m_index_size. extend_size remaps; p->m_ih is set from the base address
\* cached at init, which is the new mapping only if the remap did not move
\* it; m_index_size is not updated.
PublishIndexRoom ==
    /\ prod.pc = "index_room"
    /\ LET seq == IF prod.m_ih = "foreign" THEN prod.stray_next_seq ELSE ih.next_seq
           need_index_bytes == SizeofIndexHeader + (seq + 1) * SizeofIndexEntry
           new_size == SizeofIndexHeader + (seq + GrowEntries) * SizeofIndexEntry
       IN  IF need_index_bytes > prod.m_index_size
           THEN /\ index_fsize' = new_size
                /\ \E where \in IndexPointerAfterRemap :
                     prod' = [prod EXCEPT !.pc = "e_seq", !.seq = seq, !.m_ih = where]
           ELSE /\ prod' = [prod EXCEPT !.pc = "e_seq", !.seq = seq]
                /\ UNCHANGED index_fsize
    /\ UNCHANGED <<ih, entries, dh, payload, data_fsize, ctlvars, semvars, cons, pubs,
                   delivered, claimed>>

\* lines 456-457: e->m_seq = seq. Through a stale p->m_ih the store faults
\* or lands outside index.mm.
PublishEntrySeq ==
    /\ prod.pc = "e_seq"
    /\ prod' = [prod EXCEPT !.pc = IF prod.m_ih = "unmapped" THEN "crashed" ELSE "e_off8"]
    /\ entries' = IF prod.m_ih = "mapped"
                  THEN [entries EXCEPT ![prod.seq].seq = prod.seq]
                  ELSE entries
    /\ UNCHANGED <<ih, index_fsize, dh, payload, data_fsize, ctlvars, semvars, cons,
                   pubs, delivered, claimed>>

\* line 458: e->m_off8 = (u32)(pos >> 3)
PublishEntryOff8 ==
    /\ prod.pc = "e_off8"
    /\ entries' = IF prod.m_ih = "mapped"
                  THEN [entries EXCEPT ![prod.seq].off8 = AsU32(prod.pos \div 8)]
                  ELSE entries
    /\ prod' = [prod EXCEPT !.pc = "e_len"]
    /\ UNCHANGED <<ih, index_fsize, dh, payload, data_fsize, ctlvars, semvars, cons,
                   pubs, delivered, claimed>>

\* line 459: e->m_len = len
PublishEntryLen ==
    /\ prod.pc = "e_len"
    /\ entries' = IF prod.m_ih = "mapped"
                  THEN [entries EXCEPT ![prod.seq].len = Len(prod.msg)]
                  ELSE entries
    /\ prod' = [prod EXCEPT !.pc = "next_seq"]
    /\ UNCHANGED <<ih, index_fsize, dh, payload, data_fsize, ctlvars, semvars, cons,
                   pubs, delivered, claimed>>

\* line 461: m_next_seq = seq + 1
PublishNextSeq ==
    /\ prod.pc = "next_seq"
    /\ ih' = IF prod.m_ih = "mapped" THEN [ih EXCEPT !.next_seq = prod.seq + 1] ELSE ih
    /\ prod' = [prod EXCEPT !.pc = "entry_count",
                            !.stray_next_seq = IF prod.m_ih = "mapped" THEN @ ELSE prod.seq + 1]
    /\ UNCHANGED <<entries, index_fsize, dh, payload, data_fsize, ctlvars, semvars,
                   cons, pubs, delivered, claimed>>

\* line 462: the value stored into m_entry_count
MirrorOfNextSeq == ih.next_seq

\* line 462: m_entry_count = m_next_seq
PublishEntryCount ==
    /\ prod.pc = "entry_count"
    /\ ih' = IF prod.m_ih = "mapped" THEN [ih EXCEPT !.entry_count = MirrorOfNextSeq] ELSE ih
    /\ prod' = [prod EXCEPT !.pc = "notify"]
    /\ UNCHANGED <<entries, index_fsize, dh, payload, data_fsize, ctlvars, semvars,
                   cons, pubs, delivered, claimed>>

\* two tokens are posted for one publish
PublishNotifyTwice ==
    /\ prod.pc = "notify"
    /\ ch' = [ch EXCEPT !.notify_seq = @ + 1]
    /\ new_sem' = new_sem + 2
    /\ prod' = [prod EXCEPT !.pc = "idle", !.err = MMQ_ERR_OK]
    /\ UNCHANGED <<filevars, slots, reg_sem, cons, pubs, delivered, claimed>>

\* lines 465-469: notify_seq++, sem_post(new_sem), return MMQ_ERR_OK
PublishNotify ==
    /\ prod.pc = "notify"
    /\ ch' = [ch EXCEPT !.notify_seq = @ + 1]
    /\ new_sem' = new_sem + 1
    /\ prod' = [prod EXCEPT !.pc = "idle", !.err = MMQ_ERR_OK]
    /\ UNCHANGED <<filevars, slots, reg_sem, cons, pubs, delivered, claimed>>

\* lines 420-426 when nmmio::extend_size(h->m_data, new_size) returns false
\* because the file cannot be made larger (truncate fails, c_mmio.cpp 544:
\* nothing was unmapped): publish returns -1 before any store.
PublishDataExtendFails(msgs) ==
    /\ prod.pc = "idle"
    /\ \E msg \in msgs :
        LET pos == align_up_u64(dh.write_pos, MMQ_ALIGN)
            span == align_up_u64(Len(msg), MMQ_ALIGN)
            end == pos + span
        IN  /\ end > dh.file_size
            /\ prod' = [prod EXCEPT !.msg = msg, !.pos = pos, !.span = span,
                                    !.end = end, !.failed = "data",
                                    !.before = QueueState, !.err = -1]
    /\ UNCHANGED <<filevars, ctlvars, semvars, cons, pubs, delivered, claimed>>

\* lines 440-450 when nmmio::extend_size(h->m_index, new_size) returns false
\* because the file cannot be made larger: publish returns
\* MMQ_ERR_INDEX_EXTEND, after the payload copy and the store of write_pos.
\* The message is not published.
PublishIndexExtendFails ==
    /\ prod.pc = "index_room"
    /\ LET seq == IF prod.m_ih = "foreign" THEN prod.stray_next_seq ELSE ih.next_seq
           need_index_bytes == SizeofIndexHeader + (seq + 1) * SizeofIndexEntry
       IN  /\ need_index_bytes > prod.m_index_size
           /\ prod' = [prod EXCEPT !.pc = "idle", !.seq = seq, !.failed = "index",
                                   !.leaked = @ + 1,
                                   !.err = MMQ_ERR_INDEX_EXTEND]
    /\ pubs' = SubSeq(pubs, 1, Len(pubs) - 1)
    /\ UNCHANGED <<filevars, ctlvars, semvars, cons, delivered, claimed>>

PublishStep ==
    \/ PublishCopy \/ PublishWritePos \/ PublishIndexRoom \/ PublishEntrySeq
    \/ PublishEntryOff8 \/ PublishEntryLen \/ PublishNextSeq \/ PublishEntryCount
    \/ PublishNotify

(***************************************************************************)
(* attach_consumer, register_consumer, close_handle                        *)
(***************************************************************************)
\* lines 344-349: a header passes when it carries the magic of its own file,
\* version 1 and align MMQ_ALIGN
SaneHeader(h, magic) ==
    h.magic = magic /\ h.version = MMQ_VERSION /\ h.align = MMQ_ALIGN

\* lines 344-358: the code attach_consumer returns once the three files are
\* mapped; sems tells whether sem_open_existing finds both semaphores
attach_consumer_code(sems) ==
    IF ~SaneHeader(ih, MMQ_MAGIC_INDEX) THEN MMQ_ERR_INDEX_OPEN_RW
    ELSE IF ~SaneHeader(dh, MMQ_MAGIC_DATA) THEN MMQ_ERR_DATA_OPEN_RW
    ELSE IF ~SaneHeader(ch, MMQ_MAGIC_CONTROL) THEN MMQ_ERR_CONTROL_OPEN_RW
    ELSE IF ~sems THEN MMQ_ERR_SEMAPHORE_OPEN
    ELSE MMQ_ERR_OK

\* create_handle (179-187) and attach_consumer (322-359) on the new handle:
\* map index.mm and data.mm (read-only) and control.mm at their current
\* sizes; the handle keeps these sizes. The three files exist, and the
\* semaphores exist since init_producer created them and nothing unlinks
\* them.
AttachConsumer(c) ==
    /\ cons[c].pc = "closed"
    /\ cons' = [cons EXCEPT ![c] = [ClosedHandle EXCEPT
                    !.pc = IF attach_consumer_code(TRUE) = MMQ_ERR_OK
                           THEN "idle" ELSE "attach_failed",
                    !.err = attach_consumer_code(TRUE),
                    !.m_index_size = index_fsize,
                    !.m_data_size = data_fsize]]
    /\ UNCHANGED <<filevars, ctlvars, semvars, prod, pubs, delivered, claimed>>

\* lines 364-366: sem_wait(lock)
RegisterLock(c, names, starts) ==
    /\ cons[c].pc = "idle"
    /\ reg_sem > 0
    /\ reg_sem' = reg_sem - 1
    /\ \E name \in names, start_seq \in starts :
         cons' = [cons EXCEPT ![c].pc = "reg_scan", ![c].name = name,
                              ![c].start_seq = start_seq]
    /\ UNCHANGED <<filevars, ctlvars, new_sem, prod, pubs, delivered, claimed>>

SlotIndices == 0..(ch.max_consumers - 1)

Min(S) == CHOOSE x \in S : \A y \in S : x <= y

\* lines 372-388: the first active slot whose name compares equal, or -1
MatchingSlot(name) ==
    LET m == {i \in SlotIndices :
                 slots[i].active # 0 /\ strncmp_eq(slots[i].name, name, SizeofSlotName)}
    IN  IF m = {} THEN -1 ELSE Min(m)

\* lines 391-401: the first inactive slot, or -1
FirstInactiveSlot ==
    LET f == {i \in SlotIndices : slots[i].active = 0}
    IN  IF f = {} THEN -1 ELSE Min(f)

\* lines 368-402: the slot register_consumer ends with
RegisterResult(name) ==
    IF MatchingSlot(name) >= 0 THEN MatchingSlot(name) ELSE FirstInactiveSlot

\* the claim starts one entry after start_seq
ClaimedSlotOffByOne(old, name, start_seq) ==
    [old EXCEPT !.active = 1, !.last_seq = start_seq + 1,
                !.name = strncpy(old.name, name, SizeofSlotName - 1)]

\* lines 395-397: the claimed slot
ClaimedSlot(old, name, start_seq) ==
    [old EXCEPT !.active = 1, !.last_seq = start_seq,
                !.name = strncpy(old.name, name, SizeofSlotName - 1)]

\* lines 368-402, under the lock: reuse the slot of the same name, else
\* claim the first inactive slot, else slot = -1
RegisterScan(c) ==
    /\ cons[c].pc = "reg_scan"
    /\ LET name == cons[c].name
           slot == RegisterResult(name)
           claim == MatchingSlot(name) < 0 /\ slot >= 0
       IN  /\ slots' = IF claim
                       THEN [slots EXCEPT ![slot] = ClaimedSlot(@, name, cons[c].start_seq)]
                       ELSE slots
           /\ claimed' = IF claim
                         THEN [claimed EXCEPT ![slot] = [name |-> name,
                                                         start_seq |-> cons[c].start_seq]]
                         ELSE claimed
           /\ cons' = [cons EXCEPT ![c].pc = "reg_unlock", ![c].slot = slot,
                                   ![c].reg_name = name,
                                   ![c].reg_seq = IF slot >= 0 THEN slots'[slot].last_seq ELSE 0]
           /\ delivered' = [delivered EXCEPT ![c] = << >>]
    /\ UNCHANGED <<filevars, ch, semvars, prod, pubs>>

\* the lock is released only when a slot was found
RegisterUnlockOnSuccess(c) ==
    /\ cons[c].pc = "reg_unlock"
    /\ reg_sem' = IF cons[c].slot < 0 THEN reg_sem ELSE reg_sem + 1
    /\ cons' = [cons EXCEPT ![c].pc = "idle", ![c].name = << >>, ![c].start_seq = 0,
                            ![c].err = IF cons[c].slot < 0 THEN MMQ_ERR_CONSUMER_SLOTS_FULL
                                       ELSE MMQ_ERR_OK]
    /\ UNCHANGED <<filevars, ctlvars, new_sem, prod, pubs, delivered, claimed>>

\* lines 404-405: sem_post(lock); return
RegisterUnlock(c) ==
    /\ cons[c].pc = "reg_unlock"
    /\ reg_sem' = reg_sem + 1
    /\ cons' = [cons EXCEPT ![c].pc = "idle", ![c].name = << >>, ![c].start_seq = 0,
                            ![c].err = IF cons[c].slot < 0 THEN MMQ_ERR_CONSUMER_SLOTS_FULL
                                       ELSE MMQ_ERR_OK]
    /\ UNCHANGED <<filevars, ctlvars, new_sem, prod, pubs, delivered, claimed>>

\* a close_handle that also unlinks the semaphores: the next sem_open
\* creates them with their initial counts
CloseHandleUnlink(c) ==
    /\ cons[c].pc \in {"idle", "attach_failed"}
    /\ cons' = [cons EXCEPT ![c] = [ClosedHandle EXCEPT !.deallocs = 1]]
    /\ new_sem' = 0
    /\ reg_sem' = 1
    /\ UNCHANGED <<filevars, ctlvars, prod, pubs, delivered, claimed>>

\* lines 521-551: unmap the three files, hand the mappedfile_t objects to
\* the allocator (h->m_index, h->m_data, h->m_control keep their addresses),
\* close the semaphores (never unlinked); the files and the slot keep their
\* contents
CloseHandle(c) ==
    /\ cons[c].pc \in {"idle", "attach_failed"}
    /\ cons' = [cons EXCEPT ![c] = [ClosedHandle EXCEPT !.deallocs = 1]]
    /\ UNCHANGED <<filevars, ctlvars, semvars, prod, pubs, delivered, claimed>>

\* close_handle on a handle already closed, directly or from destroy_handle
\* (192-200): nmmio::close and nmmio::deallocate (c_mmio.cpp 533-538,
\* 568-575) are called on the three objects the first call deallocated, a
\* use after free and a second deallocate of each. The process faults or
\* aborts in the allocator, or the calls go through and each object has been
\* handed to the allocator twice.
CloseHandleAgain(c) ==
    /\ cons[c].pc = "closed"
    /\ cons[c].deallocs = 1
    /\ \/ cons' = [cons EXCEPT ![c].pc = "crashed"]
       \/ cons' = [cons EXCEPT ![c].deallocs = 2]
    /\ UNCHANGED <<filevars, ctlvars, semvars, prod, pubs, delivered, claimed>>

\* close_handle of the producer handle: the writeable mappings are synced
\* and unmapped (c_mmio.cpp 458-486), the semaphores closed
CloseProducer ==
    /\ prod.pc = "idle"
    /\ prod' = [prod EXCEPT !.pc = "closed", !.m_index_size = 0, !.m_data_size = 0]
    /\ UNCHANGED <<filevars, ctlvars, semvars, cons, pubs, delivered, claimed>>

\* init_producer finds index.mm with a header written anew
IndexAfterOpenStamped == [ih EXCEPT !.next_seq = 0, !.entry_count = 0]

\* lines 226-234: index.mm exists; it is opened and mapped, and nothing is
\* stored into it
IndexAfterOpen == ih

\* init_producer on a new handle while index.mm, data.mm and control.mm
\* exist (lines 226-234, 253-261, 280-284): a producer that closed its
\* handle, or whose process ended in a fault, starts again. The handle maps
\* the files at their sizes; the whole control mapping is zeroed and the
\* header stamped (295-310); sem_create_exclusive finds both semaphores
\* (EEXIST) and opens them, their counts as they are (313-314). The caller
\* gives the semaphore names it gave before and a max_consumers of its
\* choice; the size of control.mm is not compared with it.
InitProducer(maxcs) ==
    /\ prod.pc \in {"closed", "crashed"}
    /\ prod.session < MaxRestart
    /\ \E maxc \in maxcs :
         /\ ch' = StampedHeader(maxc, prod.new_sem_name, prod.reg_sem_name)
         /\ ih' = IndexAfterOpen
         /\ prod' = [InitProducerHandle EXCEPT
                        !.m_index_size = index_fsize,
                        !.m_data_size = data_fsize,
                        !.before = prod.before,
                        !.leaked = prod.leaked,
                        !.new_sem_name = prod.new_sem_name,
                        !.reg_sem_name = prod.reg_sem_name,
                        !.config_max = maxc,
                        !.session = prod.session + 1,
                        !.at_init = [FileState EXCEPT
                                        !.next_seq = ih'.next_seq,
                                        !.entry_count = ih'.entry_count,
                                        !.calls = Len(pubs) + prod.leaked]]
    /\ slots' = [i \in DOMAIN slots |-> ZeroSlot]
    /\ claimed' = [i \in DOMAIN claimed |-> NoClaim]
    /\ UNCHANGED <<entries, index_fsize, dh, payload, data_fsize, semvars, cons,
                   pubs, delivered>>

(***************************************************************************)
(* consumer_drain, load by load, and the waits                             *)
(***************************************************************************)
\* line 476: nseq = m_ih->m_next_seq
DrainBegin(c) ==
    /\ cons[c].pc = "idle"
    /\ cons[c].slot >= 0
    /\ cons' = [cons EXCEPT ![c].pc = "drain_cmp", ![c].nseq = ih.next_seq]
    /\ UNCHANGED <<filevars, ctlvars, semvars, prod, pubs, delivered, claimed>>

\* the test lets the cursor reach the entry at next_seq
HasMessageOrNext(last_seq, nseq) == last_seq <= nseq

\* line 477: the test self->m_last_seq < nseq
HasMessage(last_seq, nseq) == last_seq < nseq

\* lines 477, 487-489: if (self->m_last_seq < nseq) ... else msg_data =
\* nullptr, msg_len = 0, return false
DrainCompare(c) ==
    /\ cons[c].pc = "drain_cmp"
    /\ cons' = IF HasMessage(slots[cons[c].slot].last_seq, cons[c].nseq)
               THEN [cons EXCEPT ![c].pc = "drain_entry"]
               ELSE [cons EXCEPT ![c].pc = "idle", ![c].got = "false",
                                 ![c].msg_data = nullptr, ![c].msg_len = 0]
    /\ UNCHANGED <<filevars, ctlvars, semvars, prod, pubs, delivered, claimed>>

\* what index.mm holds at entry i
EntryAt(i) == IF i \in EntryIndices THEN entries[i] ELSE ZeroEntry

\* what a load outside every mapping of index.mm finds in place of an entry
ForeignEntry == [seq |-> 0, off8 |-> 1, len |-> 1]

\* lines 479-482: e = &entries[self->m_last_seq]; read m_off8 and m_len.
\* The consumer mapped index.mm at attach: an entry past m_index_size is
\* outside its mapping, and the load faults, finds the file's bytes, or
\* finds bytes that are not the file's.
DrainEntry(c) ==
    /\ cons[c].pc = "drain_entry"
    /\ LET i == slots[cons[c].slot].last_seq
           need == SizeofIndexHeader + (i + 1) * SizeofIndexEntry
       IN  \/ cons' = [cons EXCEPT ![c].pc = "drain_inc", ![c].idx = i, ![c].e = EntryAt(i)]
           \/ /\ need > cons[c].m_index_size
              /\ cons' = [cons EXCEPT ![c].pc = "crashed"]
           \/ /\ need > cons[c].m_index_size
              /\ cons' = [cons EXCEPT ![c].pc = "drain_inc", ![c].idx = i,
                                      ![c].e = ForeignEntry]
    /\ UNCHANGED <<filevars, ctlvars, semvars, prod, pubs, delivered, claimed>>

\* the len bytes at msg_data as the caller reads them on return
PayloadAt(off, len) ==
    [k \in 1..len |-> IF (off + k - 1) \in PayloadOffsets THEN payload[off + k - 1] ELSE 0]

\* the cursor skips an entry
AdvanceCursorSkip(last_seq) == last_seq + 2

\* line 484: self->m_last_seq++
AdvanceCursor(last_seq) == last_seq + 1

\* lines 480-485: msg_data = payload + off; msg_len = e->m_len;
\* self->m_last_seq++; return true
DrainAdvance(c) ==
    /\ cons[c].pc = "drain_inc"
    /\ slots' = [slots EXCEPT ![cons[c].slot].last_seq = AdvanceCursor(@)]
    /\ cons' = [cons EXCEPT ![c].pc = "idle", ![c].nseq = 0, ![c].idx = 0,
                            ![c].e = ZeroEntry, ![c].got = "true",
                            ![c].msg_data = cons[c].e.off8 * 8,
                            ![c].msg_len = cons[c].e.len]
    /\ delivered' = [delivered EXCEPT ![c] =
                        Append(@, [idx |-> cons[c].idx, seq |-> cons[c].e.seq,
                                   off8 |-> cons[c].e.off8, len |-> cons[c].e.len,
                                   msg |-> PayloadAt(cons[c].e.off8 * 8, cons[c].e.len)])]
    /\ UNCHANGED <<filevars, ch, semvars, prod, pubs, claimed>>

\* lines 493-496: sem_wait(ns) is entered; the caller blocks while the count is 0
WaitEnter(c) ==
    /\ cons[c].pc = "idle"
    /\ cons' = [cons EXCEPT ![c].pc = "waiting"]
    /\ UNCHANGED <<filevars, ctlvars, semvars, prod, pubs, delivered, claimed>>

\* lines 496-497: sem_wait(ns) takes one token and wait_for_new returns true
WaitReturn(c) ==
    /\ cons[c].pc = "waiting"
    /\ new_sem > 0
    /\ new_sem' = new_sem - 1
    /\ cons' = [cons EXCEPT ![c].pc = "idle", ![c].got = "true", ![c].waits = @ + 1]
    /\ UNCHANGED <<filevars, ctlvars, reg_sem, prod, pubs, delivered, claimed>>

\* line 504: slice_us
slice_us == 500

\* a trywait that succeeds whatever the count
sem_trywait_any(count) == TRUE

\* line 508: sem_trywait(ns) == 0 exactly when the count is positive (and
\* then takes one token)
sem_trywait(count) == count > 0

\* (u32) for waited_us and timeout_us (lines 500, 505), at a width scaled
\* from 32 bits to TimerBits: like 2^32 the modulus is a multiple of 4 and
\* not of slice_us, and it is above several slices
AsTimerU32(x) == x % (2 ^ TimerBits)

\* lines 500-505: wait_for_new_timeout is entered, waited_us = 0
TimedWaitEnter(c, timeouts) ==
    /\ cons[c].pc = "idle"
    /\ \E t \in timeouts :
         cons' = [cons EXCEPT ![c].pc = "timed_wait", ![c].timeout_us = t,
                              ![c].waited_us = 0, ![c].sem_at_entry = new_sem,
                              ![c].notify_at_entry = ch.notify_seq]
    /\ UNCHANGED <<filevars, ctlvars, semvars, prod, pubs, delivered, claimed>>

\* lines 506-517: one turn of the loop. While waited_us < timeout_us:
\* sem_trywait, return true when it took a token, else nanosleep one slice
\* and add it to waited_us; past the loop errno = ETIMEDOUT, return false.
TimedWaitTurn(c) ==
    /\ cons[c].pc = "timed_wait"
    /\ IF cons[c].waited_us < cons[c].timeout_us
       THEN IF sem_trywait(new_sem)
            THEN /\ new_sem' = new_sem - 1
                 /\ cons' = [cons EXCEPT ![c].pc = "idle", ![c].got = "ok",
                                         ![c].waits = @ + 1]
            ELSE /\ cons' = [cons EXCEPT ![c].waited_us = AsTimerU32(@ + slice_us)]
                 /\ UNCHANGED new_sem
       ELSE /\ cons' = [cons EXCEPT ![c].pc = "idle", ![c].got = "timed_out"]
            /\ UNCHANGED new_sem
    /\ UNCHANGED <<filevars, ctlvars, reg_sem, prod, pubs, delivered, claimed>>

DrainStep(c) == DrainCompare(c) \/ DrainEntry(c) \/ DrainAdvance(c)

RegisterStep(c) == RegisterScan(c) \/ RegisterUnlock(c)

(***************************************************************************)
(* Spec: the producer and one consumer, every call interleaved freely at   *)
(* the grain of single loads and stores                                    *)
(***************************************************************************)
Next ==
    \/ PublishBegin({Msg0, Msg16})
    \/ PublishStep
    \/ AttachConsumer("c1")
    \/ RegisterLock("c1", {<<97>>}, StartSeqs)
    \/ RegisterStep("c1")
    \/ DrainBegin("c1")
    \/ DrainStep("c1")

Spec == Init /\ [][Next]_vars

(***************************************************************************)
(* Claims checked under Spec                                               *)
(***************************************************************************)
\* the entry publish number s + 1 (sequence number s) stores
PublishedEntry(s) ==
    [seq |-> s, off8 |-> pubs[s + 1].pos \div 8, len |-> Len(pubs[s + 1].msg)]

\* the open handles that have a slot
Registered == {c \in Consumers : cons[c].pc # "closed" /\ cons[c].slot >= 0}

C2_RoundTrip ==
    \A c \in Registered :
        (/\ prod.pc = "idle"
         /\ cons[c].pc = "idle"
         /\ cons[c].got = "false"
         /\ cons[c].reg_seq = 0
         /\ cons[c].nseq = Len(pubs))
        => /\ Len(delivered[c]) = Len(pubs)
           /\ \A k \in 1..Len(delivered[c]) :
                 /\ delivered[c][k].len = Len(pubs[k].msg)
                 /\ delivered[c][k].msg = pubs[k].msg

\* the padded payload range of publish number s + 1 holds the message and
\* then zeros, at the offsets below limit
PayloadWrittenBelow(s, limit) ==
    LET p == pubs[s + 1]
    IN  \A o \in PayloadOffsets :
            (o >= p.pos /\ o < p.pos + align_up_u64(Len(p.msg), MMQ_ALIGN) /\ o < limit)
            => payload[o] = (IF o - p.pos < Len(p.msg) THEN p.msg[o - p.pos + 1] ELSE 0)

\* C3: no tearing. Every entry below next_seq holds the seq, off8 and len
\* that its publish stored and its whole padded payload range is written; a
\* consumer in consumer_drain that has read the entry at its cursor read an
\* entry below the next_seq it loaded, with exactly those fields.
C3_NoTearing ==
    /\ \A s \in EntryIndices :
          s < ih.next_seq
          => /\ entries[s] = PublishedEntry(s)
             /\ PayloadWrittenBelow(s, MaxPublish * 16)
    /\ \A c \in Consumers :
          cons[c].pc = "drain_inc"
          => /\ cons[c].idx < cons[c].nseq
             /\ cons[c].nseq <= ih.next_seq
             /\ cons[c].e = PublishedEntry(cons[c].idx)

\* What the order of the stores does give: every entry below next_seq is
\* fully formed in index.mm, and its payload range is written as far as it
\* lay inside data.mm when publish copied it.
EntriesFormedInsideFiles ==
    \A s \in EntryIndices :
        s < ih.next_seq
        => /\ entries[s] = PublishedEntry(s)
           /\ PayloadWrittenBelow(s, pubs[s + 1].fsize)

MirrorAlways == ih.next_seq = ih.entry_count

\* when publish has returned, both counters equal the number of publish
\* calls made: each one raised both by exactly one
PublishRaisesBoth ==
    prod.pc = "idle" => (ih.next_seq = Len(pubs) /\ ih.entry_count = Len(pubs))

\* C10: next_seq equals entry_count after every successful publish and in
\* every state in which a concurrently running consumer can read the index
\* header, and each successful publish raises both by exactly one.
C10_MirrorAsClaimed == MirrorAlways /\ PublishRaisesBoth

\* What does hold of the mirror: entry_count is next_seq except between the
\* two header stores of publish, where it is one behind.
MirrorExceptBetweenStores ==
    /\ prod.pc # "entry_count" => ih.next_seq = ih.entry_count
    /\ prod.pc = "entry_count" => ih.next_seq \in {ih.entry_count, ih.entry_count + 1}

(***************************************************************************)
(* SpecReg: the registry. A consumer process attaches, registers under any *)
(* of the names with any start_seq, drains, closes its handle and attaches *)
(* again, and the producer publishes; the calls are made one after the     *)
(* other.                                                                  *)
(***************************************************************************)
\* no call is in progress
Quiet ==
    /\ prod.pc \in {"idle", "crashed"}
    /\ \A c \in Consumers : cons[c].pc \in {"closed", "idle", "crashed"}

NextReg ==
    \/ Quiet /\ Len(pubs) < MaxRegPublish /\ PublishBegin({Msg0})
    \/ PublishStep
    \/ AttachConsumer("c1")
    \/ Quiet /\ RegisterLock("c1", Names, StartSeqs)
    \/ RegisterStep("c1")
    \/ Quiet /\ DrainBegin("c1")
    \/ DrainStep("c1")
    \/ CloseHandle("c1")

SpecReg == Init /\ [][NextReg]_vars

\* the step in which register_consumer of handle c scans the slot table
Scans(c) == cons[c].pc = "reg_scan" /\ cons'[c].pc = "reg_unlock"

\* C6: reattach. A register_consumer call with the name an active slot was
\* claimed with ends with that slot's index and leaves the slot's last_seq
\* as it was, whatever start_seq it passes.
C6_Reattach ==
    [][\A c \in Consumers : \A i \in SlotIndices :
          (Scans(c) /\ slots[i].active # 0 /\ claimed[i].name = cons[c].name)
          => (cons'[c].slot = i /\ slots'[i].last_seq = slots[i].last_seq)]_vars

\* every slot is active and the names they were claimed with are pairwise
\* distinct
TableFullOfDistinctNames ==
    /\ \A i \in SlotIndices : slots[i].active # 0
    /\ \A i, j \in SlotIndices : i # j => claimed[i].name # claimed[j].name

\* C7: capacity law. Once max_consumers registrations with pairwise distinct
\* names have claimed every slot, a registration with a further name ends
\* with slot -1 and the table unchanged, and a registration with one of the
\* registered names ends with a slot; the call returns ConsumerSlotsFull
\* exactly when it ends with slot -1.
C7_CapacityLaw ==
    [][\A c \in Consumers :
          /\ (Scans(c) /\ TableFullOfDistinctNames)
             => IF \E i \in SlotIndices : claimed[i].name = cons[c].name
                THEN cons'[c].slot >= 0
                ELSE cons'[c].slot = -1 /\ slots' = slots
          /\ (cons[c].pc = "reg_unlock" /\ cons'[c].pc = "idle")
             => (cons'[c].err = MMQ_ERR_CONSUMER_SLOTS_FULL <=> cons[c].slot = -1)]_vars

\* C8: the stored names of the active slots are pairwise distinct
C8_ActiveNamesDistinct ==
    \A i, j \in SlotIndices :
        (i # j /\ slots[i].active # 0 /\ slots[j].active # 0)
        => slots[i].name # slots[j].name

\* the names that fit a slot with their terminator
FitsSlot(name) == Len(name) < SizeofSlotName

\* What does hold of the registry: a registration whose name fits the slot
\* reattaches to the slot claimed with that name and leaves the table as it
\* was, and the active slots claimed with fitting names store pairwise
\* distinct names.
ReattachFittingNames ==
    [][\A c \in Consumers : \A i \in SlotIndices :
          (Scans(c) /\ slots[i].active # 0 /\ claimed[i].name = cons[c].name
                    /\ FitsSlot(cons[c].name))
          => (cons'[c].slot = i /\ slots' = slots)]_vars

(***************************************************************************)
(* SpecWake: two consumers wait in wait_for_new while the producer         *)
(* publishes. A publish under way runs to its end, and a consumer whose    *)
(* sem_wait can return again and again does return.                        *)
(***************************************************************************)
NextWake ==
    \/ PublishBegin({Msg0})
    \/ PublishStep
    \/ \E c \in Consumers :
         \/ AttachConsumer(c)
         \/ WaitEnter(c)
         \/ WaitReturn(c)

FairWake ==
    /\ WF_vars(PublishStep)
    /\ \A c \in Consumers : SF_vars(WaitReturn(c))

SpecWake == Init /\ [][NextWake]_vars /\ FairWake

\* C4: when every consumer is blocked in wait_for_new and a publish is about
\* to post the notify semaphore and return, each of the blocked consumers
\* eventually returns from wait_for_new. (The producer is free to make no
\* further call; a run in which it goes on to its last publish of the model
\* is not counted against the claim.)
C4_EveryWaiterWakes ==
    \A c \in Consumers :
        ((\A d \in Consumers : cons[d].pc = "waiting") /\ prod.pc = "notify")
        ~> (cons[c].pc # "waiting" \/ Len(pubs) = MaxPublish)

\* What does hold of the wake-up: some blocked consumer returns.
SomeWaiterWakes ==
    ((\A d \in Consumers : cons[d].pc = "waiting") /\ prod.pc = "notify")
    ~> (\E c \in Consumers : cons[c].pc # "waiting")

(***************************************************************************)
(* SpecLoop: one consumer registers at cursor 0 and runs the loop          *)
(* "consumer_drain; if it returned false, wait_for_new" while the producer *)
(* publishes. Every step that stays possible is eventually taken.          *)
(***************************************************************************)
\* the loop calls consumer_drain first and after every drain or wait that
\* returned true
LoopDrain(c) == cons[c].got # "false" /\ DrainBegin(c)

\* the loop calls wait_for_new after a drain that returned false
LoopWait(c) == cons[c].got = "false" /\ WaitEnter(c)

LoopRegister(c) == cons[c].slot < 0 /\ RegisterLock(c, {<<97>>}, {0})

ConsumerLoop(c) ==
    \/ AttachConsumer(c)
    \/ LoopRegister(c)
    \/ RegisterStep(c)
    \/ LoopDrain(c)
    \/ DrainStep(c)
    \/ LoopWait(c)
    \/ WaitReturn(c)

NextLoop ==
    \/ PublishBegin({Msg5})
    \/ PublishStep
    \/ ConsumerLoop("c1")

FairLoop == WF_vars(PublishStep) /\ WF_vars(ConsumerLoop("c1"))

SpecLoop == Init /\ [][NextLoop]_vars /\ FairLoop

\* consumer_drain of c has returned true at cursor value s
Returned(c, s) == \E k \in 1..Len(delivered[c]) : delivered[c][k].idx = s

\* C5: every message whose publish has returned is eventually returned by a
\* consumer_drain call of the looping consumer.
C5_NoLostWakeup ==
    \A s \in EntryIndices :
        (Len(pubs) > s /\ prod.pc = "idle") ~> Returned("c1", s)

\* What does hold of the loop: the messages that fit the index file as it
\* was when the consumer could first attach are all returned.
NoLostWakeupBeforeGrowth ==
    \A s \in 0..(InitEntries - 1) :
        (Len(pubs) > s /\ prod.pc = "idle") ~> Returned("c1", s)

(***************************************************************************)
(* SpecGrow: the producer alone, on an index file with room for one entry  *)
(* and the small data file, publishes messages of length 0, 5 and 16: the  *)
(* second and every later publish extends index.mm, and data.mm is         *)
(* extended when a message does not fit.                                   *)
(***************************************************************************)
small_index_bytes == SizeofIndexHeader + SizeofIndexEntry

InitGrow ==
    /\ InitFiles(small_index_bytes, data_initial_bytes)
    /\ InitRest
    /\ prod = [InitProducerHandle EXCEPT !.m_index_size = small_index_bytes]

NextGrow ==
    \/ PublishBegin({Msg0, Msg5, Msg16})
    \/ PublishStep

SpecGrow == InitGrow /\ [][NextGrow]_vars

\* C11: every entry below next_seq carries its own index as seq, and the
\* k-th publish is assigned seq k - 1.
C11_SeqIsIndex ==
    /\ \A s \in EntryIndices : s < ih.next_seq => entries[s].seq = s
    /\ prod.pc \in {"e_seq", "e_off8", "e_len", "next_seq", "entry_count", "notify"}
       => prod.seq = Len(pubs) - 1

\* What does hold of the sequence numbers: as long as every store of
\* publish has gone through a header pointer into the mapping of index.mm,
\* every entry below next_seq carries its own index.
SeqIsIndexWhileMapped ==
    prod.m_ih = "mapped" /\ prod.stray_next_seq = 0
    => \A s \in EntryIndices : s < ih.next_seq => entries[s] = PublishedEntry(s)

\* the padded payload range of entry s: from (off8 << 3) to RangeEnd(s)
RangeBegin(s) == entries[s].off8 * 8
RangeEnd(s) == entries[s].off8 * 8 + align_up_u64(entries[s].len, MMQ_ALIGN)

C13_GrowthFitsEnd ==
    /\ prod.pc = "copy" => prod.end <= dh.file_size
    /\ prod.pc = "idle" => dh.write_pos <= dh.file_size

\* the bytes of the arena the first n publishes occupy
RECURSIVE SpanSum(_)
SpanSum(n) ==
    IF n = 0 THEN 0 ELSE SpanSum(n - 1) + align_up_u64(Len(pubs[n].msg), MMQ_ALIGN)

\* C14: write_pos is a multiple of 8 in every state, (off8 << 3) is a
\* multiple of 8 for every entry below next_seq, and each message occupies
\* exactly align_up(len, 8) bytes: the k-th message starts where the first
\* k - 1 padded messages end, and when publish has returned write_pos is the
\* sum of the padded lengths.
C14_AlignedArena ==
    /\ dh.write_pos % MMQ_ALIGN = 0
    /\ \A s \in EntryIndices : s < ih.next_seq => RangeBegin(s) % MMQ_ALIGN = 0
    /\ \A k \in 1..Len(pubs) : pubs[k].pos = SpanSum(k - 1)
    /\ prod.pc = "idle" => dh.write_pos = SpanSum(Len(pubs))

\* C14 witness: messages of 5, 0 and 16 bytes published, 24 bytes occupied
C14_Witness ==
    /\ prod.pc = "idle"
    /\ Len(pubs) = 3
    /\ Len(pubs[1].msg) = 5 /\ Len(pubs[2].msg) = 0 /\ Len(pubs[3].msg) = 16
    /\ dh.write_pos = 24

\* C15: growth preserves contents. No step of publish changes an entry below
\* next_seq or a payload byte below write_pos, and the step that extends
\* data.mm changes file_size only: write_pos is kept.
C15_GrowthPreservesContents ==
    [][/\ \A s \in EntryIndices : s < ih.next_seq => entries'[s] = entries[s]
       /\ \A o \in PayloadOffsets : o < dh.write_pos => payload'[o] = payload[o]
       /\ data_fsize' > data_fsize =>
            /\ dh'.write_pos = dh.write_pos
            /\ dh'.file_size > dh.file_size]_vars

\* C15 witness: the second publish extended data.mm, and the entry and the
\* 16 payload bytes of the first message are as they were published
C15_Witness ==
    /\ prod.pc = "idle"
    /\ data_fsize > data_initial_bytes
    /\ ih.next_seq = 2
    /\ Len(pubs[1].msg) = 16
    /\ entries[0] = PublishedEntry(0)
    /\ \A k \in 1..16 : payload[k - 1] = pubs[1].msg[k]

(***************************************************************************)
(* publish when a file cannot be extended                                  *)
(***************************************************************************)
NextFail ==
    \/ PublishBegin({Msg0, Msg5, Msg16})
    \/ PublishStep
    \/ PublishDataExtendFails({Msg0, Msg5, Msg16})
    \/ PublishIndexExtendFails

SpecFail == InitGrow /\ [][NextFail]_vars

\* publish has returned with an extension of the named file failed
ReturnedFailed(file) == prod.pc = "idle" /\ prod.failed = file

\* C16: when growing data.mm or index.mm fails, publish returns an error and
\* next_seq, entry_count, every entry, write_pos, notify_seq and the count of
\* the notify semaphore are what they were when publish was called.
C16_FailedGrowthKeepsState ==
    \A file \in {"data", "index"} :
        ReturnedFailed(file) => prod.err < 0 /\ QueueState = prod.before

\* a failed growth of data.mm leaves the queue state as it was
FailedDataGrowthKeepsState ==
    ReturnedFailed("data") => prod.err < 0 /\ QueueState = prod.before

\* the code of every error kind
ErrorCodes ==
    {MMQ_ERR_INDEX_OPEN_RW, MMQ_ERR_DATA_OPEN_RW, MMQ_ERR_CONTROL_OPEN_RW,
     MMQ_ERR_INDEX_SANITY, MMQ_ERR_DATA_SANITY, MMQ_ERR_CONTROL_SANITY,
     MMQ_ERR_SEMAPHORE_OPEN, MMQ_ERR_REGISTRY_LOCK, MMQ_ERR_CONSUMER_SLOTS_FULL,
     MMQ_ERR_INDEX_EXTEND, MMQ_ERR_DATA_EXTEND, MMQ_ERR_NO_MSG_AVAILABLE,
     MMQ_ERR_TIMEDOUT}

\* C17: the thirteen error kinds have thirteen distinct negative codes; a
\* failed growth of data.mm returns MMQ_ERR_DATA_EXTEND and a failed growth
\* of index.mm returns MMQ_ERR_INDEX_EXTEND.
C17_ExtendCodes ==
    /\ Cardinality(ErrorCodes) = 13
    /\ \A e \in ErrorCodes : e < 0
    /\ ReturnedFailed("data") => prod.err = MMQ_ERR_DATA_EXTEND
    /\ ReturnedFailed("index") => prod.err = MMQ_ERR_INDEX_EXTEND

\* the codes are distinct and a failed growth of index.mm returns its own
IndexExtendCode ==
    /\ Cardinality(ErrorCodes) = 13
    /\ ReturnedFailed("index") => prod.err = MMQ_ERR_INDEX_EXTEND

(***************************************************************************)
(* attach_consumer on files with any headers                               *)
(***************************************************************************)
Magics == {MMQ_MAGIC_INDEX, MMQ_MAGIC_DATA, MMQ_MAGIC_CONTROL}
Versions == {MMQ_VERSION, MMQ_VERSION + 1}
Aligns == {MMQ_ALIGN, 2 * MMQ_ALIGN}

\* the three files as found on disk, their headers not known to be valid
InitAttach ==
    /\ \E m \in Magics, v \in Versions, a \in Aligns :
         ih = [next_seq |-> 0, entry_count |-> 0, magic |-> m, version |-> v,
               align |-> a]
    /\ \E m \in Magics, v \in Versions, a \in Aligns :
         dh = [write_pos |-> 0, file_size |-> data_initial_bytes - SizeofDataHeader,
               magic |-> m, version |-> v, align |-> a]
    /\ \E m \in Magics, v \in Versions, a \in Aligns :
         ch = [StampedHeader(max_consumers, NewSemName, RegSemName) EXCEPT
                  !.magic = m, !.version = v, !.align = a]
    /\ entries = [s \in EntryIndices |-> ZeroEntry]
    /\ index_fsize = index_initial_bytes
    /\ payload = [o \in PayloadOffsets |-> 0]
    /\ data_fsize = data_initial_bytes
    /\ slots = [i \in 0..(max_consumers - 1) |-> ZeroSlot]
    /\ new_sem = 0
    /\ reg_sem = 1
    /\ InitHandles
    /\ prod = [InitProducerHandle EXCEPT !.pc = "closed"]

NextAttach ==
    \E c \in Consumers :
        AttachConsumer(c) \/ CloseHandle(c) \/ CloseHandleAgain(c)

SpecAttach == InitAttach /\ [][NextAttach]_vars

\* attach_consumer has returned on handle c
Attached(c) == cons[c].pc \in {"idle", "attach_failed"}

\* the code the mismatching file's sanity error, or MMQ_ERR_OK
SanityCode ==
    IF ~SaneHeader(ih, MMQ_MAGIC_INDEX) THEN MMQ_ERR_INDEX_SANITY
    ELSE IF ~SaneHeader(dh, MMQ_MAGIC_DATA) THEN MMQ_ERR_DATA_SANITY
    ELSE IF ~SaneHeader(ch, MMQ_MAGIC_CONTROL) THEN MMQ_ERR_CONTROL_SANITY
    ELSE MMQ_ERR_OK

\* C18: attach_consumer returns IndexSanity, DataSanity or ControlSanity for
\* the first file whose header does not carry its own magic, version 1 and
\* align 8, a code that is none of the open errors, and MMQ_ERR_OK when the
\* three headers match and both semaphores are present.
C18_AttachSanityCodes ==
    \A c \in Consumers : Attached(c) =>
        /\ cons[c].err = SanityCode
        /\ cons[c].err \notin {MMQ_ERR_INDEX_OPEN_RW, MMQ_ERR_DATA_OPEN_RW,
                               MMQ_ERR_CONTROL_OPEN_RW}

\* attach_consumer returns MMQ_ERR_OK exactly when each header carries the
\* magic of its own file, version 1 and align 8
AttachChecksOwnMagic ==
    \A c \in Consumers : Attached(c) =>
        (cons[c].err = MMQ_ERR_OK <=>
            /\ SaneHeader(ih, MMQ_MAGIC_INDEX)
            /\ SaneHeader(dh, MMQ_MAGIC_DATA)
            /\ SaneHeader(ch, MMQ_MAGIC_CONTROL))

\* C19: a second close_handle on a handle is a no-op: each mappedfile_t
\* object is closed and deallocated once, and the handle stays closed.
C19_DoubleCloseNoOp ==
    \A c \in Consumers :
        /\ cons[c].deallocs <= 1
        /\ cons[c].deallocs = 1 => cons[c].pc = "closed"

(***************************************************************************)
(* close_handle among the other calls: the producer and two consumers, the *)
(* calls made one after the other. Both consumers attach, register and     *)
(* close; c2 also drains and waits, and stays blocked in wait_for_new      *)
(* while the others call.                                                  *)
(***************************************************************************)
\* no call is running
NoCall ==
    /\ prod.pc \in {"idle", "crashed", "closed"}
    /\ \A c \in Consumers : cons[c].pc \in {"closed", "idle", "crashed", "waiting"}

\* the name each consumer registers under
NameOf(c) == IF c = "c1" THEN <<97>> ELSE <<98>>

NextClose ==
    \/ NoCall /\ Len(pubs) < MaxRegPublish /\ PublishBegin({Msg5})
    \/ PublishStep
    \/ NoCall /\ CloseProducer
    \/ \E c \in Consumers :
         \/ NoCall /\ AttachConsumer(c)
         \/ NoCall /\ RegisterLock(c, {NameOf(c)}, {0})
         \/ RegisterStep(c)
         \/ NoCall /\ CloseHandle(c)
    \/ NoCall /\ DrainBegin("c2")
    \/ DrainStep("c2")
    \/ NoCall /\ WaitEnter("c2")
    \/ NoCall /\ WaitReturn("c2")

SpecClose == Init /\ [][NextClose]_vars

\* the step is a close_handle of a handle that was open
CloseStep ==
    \/ prod.pc # "closed" /\ prod'.pc = "closed"
    \/ \E c \in Consumers : cons[c].pc # "closed" /\ cons'[c].pc = "closed"

\* C20: close_handle by the producer or a consumer leaves the counts of both
\* semaphores and the contents of index.mm, data.mm and control.mm unchanged.
C20_CloseLeavesQueue ==
    [][CloseStep => UNCHANGED <<filevars, ctlvars, semvars>>]_vars

\* C20 witness: the producer handle is closed; c1 registered, closed its
\* handle and has attached again with a new handle (its slot still carries
\* its name); c2 has drained a message
C20_Witness ==
    /\ prod.pc = "closed"
    /\ cons["c1"].pc = "idle" /\ cons["c1"].slot = -1
    /\ \E i \in SlotIndices : slots[i].active = 1 /\ claimed[i].name = NameOf("c1")
    /\ Len(delivered["c2"]) > 0

(***************************************************************************)
(* register_consumer by two consumer processes, their steps interleaved    *)
(* freely; a process closes its handle and attaches again to register      *)
(* under another name.                                                     *)
(***************************************************************************)
NextMutex ==
    \E c \in Consumers :
        \/ AttachConsumer(c)
        \/ RegisterLock(c, Names, {0})
        \/ RegisterStep(c)
        \/ CloseHandle(c)

SpecMutex == Init /\ [][NextMutex]_vars

\* the consumers between sem_wait(lock) and sem_post(lock)
InRegistry == {c \in Consumers : cons[c].pc \in {"reg_scan", "reg_unlock"}}

\* C21: register_consumer releases the registry lock on every path: the
\* count of the lock is 1 whenever no call holds it (after a slot was reused,
\* a slot was claimed, or the table was full), 0 while one holds it, and
\* never above 1.
C21_LockReleased ==
    /\ reg_sem \in {0, 1}
    /\ InRegistry = {} => reg_sem = 1
    /\ InRegistry # {} => reg_sem = 0

\* C21 witness: one call has returned ConsumerSlotsFull, another has
\* returned a slot, and the lock is free
C21_Witness ==
    /\ reg_sem = 1
    /\ cons["c1"].pc = "idle" /\ cons["c1"].err = MMQ_ERR_CONSUMER_SLOTS_FULL
    /\ cons["c1"].slot = -1 /\ cons["c1"].reg_name # << >>
    /\ cons["c2"].pc = "idle" /\ cons["c2"].slot >= 0

\* the consumers whose last register_consumer call returned a slot on the
\* handle they hold
HoldsSlot(c) == cons[c].pc = "idle" /\ cons[c].slot >= 0

\* C22: registrations are mutually exclusive: at most one process is between
\* the lock and the unlock, so of two open handles those registered under
\* distinct names hold distinct slots and those registered under the same
\* name hold the same slot.
C22_ExclusiveRegistration ==
    /\ Cardinality(InRegistry) <= 1
    /\ \A c, d \in Consumers : (c # d /\ HoldsSlot(c) /\ HoldsSlot(d)) =>
         (cons[c].reg_name = cons[d].reg_name <=> cons[c].slot = cons[d].slot)

\* at most one process scans or modifies the slot table at a time, and for
\* names that fit the slot the slots agree with the names
ExclusiveForFittingNames ==
    /\ Cardinality(InRegistry) <= 1
    /\ \A c, d \in Consumers :
         (/\ c # d /\ HoldsSlot(c) /\ HoldsSlot(d)
          /\ \A i \in SlotIndices : slots[i].active # 0 => FitsSlot(claimed[i].name)
          /\ FitsSlot(cons[c].reg_name) /\ FitsSlot(cons[d].reg_name)) =>
         (cons[c].reg_name = cons[d].reg_name <=> cons[c].slot = cons[d].slot)

(***************************************************************************)
(* SpecDrain: c1 attaches, registers and drains while the producer         *)
(* publishes and c2 registers, every step interleaved freely; a            *)
(* consumer_drain under way takes its next step.                           *)
(***************************************************************************)
NextDrain ==
    \/ PublishBegin({Msg5})
    \/ PublishStep
    \/ AttachConsumer("c1")
    \/ RegisterLock("c1", {<<97>>}, {0})
    \/ RegisterStep("c1")
    \/ DrainBegin("c1")
    \/ DrainStep("c1")
    \/ AttachConsumer("c2")
    \/ RegisterLock("c2", {<<98>>}, {0})
    \/ RegisterStep("c2")

FairDrain == WF_vars(DrainStep("c1"))

SpecDrain == Init /\ [][NextDrain]_vars /\ FairDrain

\* consumer_drain of handle c is under way
InDrain(c) == cons[c].pc \in {"drain_cmp", "drain_entry", "drain_inc"}

\* C23: consumer_drain never blocks: a call under way returns, whatever the
\* state of the registry lock, the notify semaphore and the producer, and it
\* takes no token of either semaphore.
C23_DrainReturns ==
    /\ InDrain("c1") ~> cons["c1"].pc = "idle"
    /\ [][(cons["c1"]' # cons["c1"] /\ (InDrain("c1") \/ InDrain("c1")'))
            => UNCHANGED semvars]_vars

\* a consumer_drain whose entry lies in the index mapping of its handle
\* returns
DrainReturnsInsideMapping ==
    (/\ InDrain("c1")
     /\ SizeofIndexHeader + (slots[cons["c1"].slot].last_seq + 1) * SizeofIndexEntry
            <= cons["c1"].m_index_size)
    ~> cons["c1"].pc = "idle"

\* no step of consumer_drain changes the count of a semaphore, and a call
\* under way always has a step to take
DrainTakesNoSemaphore ==
    [][(cons["c1"]' # cons["c1"] /\ (InDrain("c1") \/ InDrain("c1")'))
          => UNCHANGED semvars]_vars

DrainHasAStep == InDrain("c1") => ENABLED DrainStep("c1")

(***************************************************************************)
(* SpecIndep: two consumers registered under the names a and b drain while *)
(* the producer publishes; a call is started when no other is under way    *)
(* except drains, whose steps interleave freely.                           *)
(***************************************************************************)
\* no call other than a consumer_drain is under way
OnlyDrains ==
    /\ prod.pc \in {"idle", "crashed"}
    /\ \A c \in Consumers :
         cons[c].pc \in {"closed", "idle", "crashed", "drain_cmp", "drain_entry",
                         "drain_inc"}

NextIndep ==
    \/ OnlyDrains /\ PublishBegin({Msg5})
    \/ PublishStep
    \/ \E c \in Consumers :
         \/ OnlyDrains /\ AttachConsumer(c)
         \/ OnlyDrains /\ cons[c].slot < 0 /\ RegisterLock(c, {NameOf(c)}, StartSeqs)
         \/ RegisterStep(c)
         \/ DrainBegin(c)
         \/ DrainStep(c)

SpecIndep == Init /\ [][NextIndep]_vars

\* the step is a step of a consumer_drain call of handle c
IsDrainStep(c) == cons[c]' # cons[c] /\ (InDrain(c) \/ InDrain(c)')

\* a consumer_drain of c changes nothing but the last_seq of its slot, by
\* one when it returns true
DrainFrame(c) ==
    /\ UNCHANGED <<filevars, ch, semvars>>
    /\ \A i \in SlotIndices : i # cons[c].slot => slots'[i] = slots[i]
    /\ slots'[cons[c].slot] =
         [slots[cons[c].slot] EXCEPT
             !.last_seq = IF cons[c].pc = "drain_inc" /\ cons'[c].got = "true"
                          THEN @ + 1 ELSE @]

\* handle c has drained until consumer_drain returned false on seeing all
\* the N publishes made
DrainedAll(c) ==
    /\ prod.pc = "idle"
    /\ cons[c].pc = "idle"
    /\ cons[c].got = "false"
    /\ cons[c].nseq = Len(pubs)
    /\ cons[c].reg_seq <= Len(pubs)

\* C24: independent cursors. A consumer_drain of a handle changes nothing
\* but the last_seq of its own slot (by one when it returns true), and a
\* consumer registered at cursor k that has drained all of N published
\* entries was handed exactly the entries k..N-1, whatever the other
\* consumer did.
C24_IndependentCursors ==
    /\ [][\A c \in Consumers : IsDrainStep(c) => DrainFrame(c)]_vars
    /\ [](\A c \in Registered : DrainedAll(c) =>
            /\ Len(delivered[c]) = Len(pubs) - cons[c].reg_seq
            /\ \A j \in 1..Len(delivered[c]) :
                 /\ delivered[c][j].idx = cons[c].reg_seq + j - 1
                 /\ [seq |-> delivered[c][j].seq, off8 |-> delivered[c][j].off8,
                     len |-> delivered[c][j].len]
                    = PublishedEntry(delivered[c][j].idx))

\* a consumer_drain changes nothing but the last_seq of its own slot
DrainChangesOwnCursorOnly ==
    [][\A c \in Consumers : IsDrainStep(c) => DrainFrame(c)]_vars

\* while index.mm has not been extended, a consumer that has drained all of
\* N entries was handed exactly the entries from its cursor to N - 1
ExactlyFromCursorBeforeGrowth ==
    \A c \in Registered : (DrainedAll(c) /\ Len(pubs) <= InitEntries) =>
        /\ Len(delivered[c]) = Len(pubs) - cons[c].reg_seq
        /\ \A j \in 1..Len(delivered[c]) :
             /\ delivered[c][j].idx = cons[c].reg_seq + j - 1
             /\ [seq |-> delivered[c][j].seq, off8 |-> delivered[c][j].off8,
                 len |-> delivered[c][j].len]
                = PublishedEntry(delivered[c][j].idx)

\* C25: a consumer_drain that finds the slot's last_seq at or above the
\* next_seq it loaded returns false with a null pointer and length 0 and
\* changes no cursor; no message is handed out at a cursor that next_seq has
\* not passed, so a consumer registered ahead of the producer gets nothing
\* until next_seq exceeds its start_seq.
C25_EmptyDrain ==
    /\ [][\A c \in Consumers :
            (/\ cons[c].pc = "drain_cmp"
             /\ cons'[c] # cons[c]
             /\ slots[cons[c].slot].last_seq >= cons[c].nseq)
            => /\ cons'[c].pc = "idle" /\ cons'[c].got = "false"
               /\ cons'[c].msg_data = nullptr /\ cons'[c].msg_len = 0
               /\ UNCHANGED <<slots, delivered>>]_vars
    /\ [](\A c \in Registered :
            /\ \A j \in 1..Len(delivered[c]) : delivered[c][j].idx < ih.next_seq
            /\ cons[c].reg_seq >= ih.next_seq => delivered[c] = << >>)

\* C25 witness: registered at cursor 2 with one entry published, the drain
\* has returned false with a null pointer, the cursor still 2
C25_Witness ==
    /\ ih.next_seq = 1
    /\ cons["c1"].pc = "idle" /\ cons["c1"].got = "false"
    /\ cons["c1"].slot >= 0 /\ cons["c1"].reg_seq = MaxStartSeq
    /\ slots[cons["c1"].slot].last_seq = MaxStartSeq
    /\ cons["c1"].msg_data = nullptr /\ cons["c1"].msg_len = 0
    /\ delivered["c1"] = << >>

\* the step is the return of a publish of a zero-length message
ZeroPublishReturns ==
    prod.pc = "notify" /\ prod'.pc = "idle" /\ Len(prod.msg) = 0

\* what a publish of a zero-length message has done when it returns
ZeroPublishEffect ==
    /\ prod'.err = MMQ_ERR_OK
    /\ ih'.next_seq = prod.before.next_seq + 1
    /\ dh'.write_pos = prod.before.write_pos
    /\ new_sem' = new_sem + 1

\* C26: a publish with len = 0 succeeds (it does not fault), raises next_seq
\* by one, leaves write_pos as it was, posts one token, and the drain of its
\* entry returns a message of length 0.
C26_ZeroLengthMessage ==
    /\ [](prod.pc = "crashed" => Len(prod.msg) # 0)
    /\ [][ZeroPublishReturns => ZeroPublishEffect]_vars
    /\ [](\A c \in Registered : \A j \in 1..Len(delivered[c]) :
            (/\ delivered[c][j].idx < Len(pubs)
             /\ Len(pubs[delivered[c][j].idx + 1].msg) = 0)
            => delivered[c][j].len = 0 /\ delivered[c][j].msg = << >>)

\* a zero-length publish that goes through the mapping of index.mm raises
\* next_seq by one, keeps write_pos and posts one token, and its entry,
\* read inside the consumer's mapping, is returned with length 0
ZeroLengthWhileMapped ==
    /\ [][(ZeroPublishReturns /\ prod.m_ih = "mapped" /\ prod.stray_next_seq = 0)
            => ZeroPublishEffect]_vars
    /\ [](\A c \in Registered : \A j \in 1..Len(delivered[c]) :
            (/\ delivered[c][j].idx < InitEntries
             /\ Len(pubs[delivered[c][j].idx + 1].msg) = 0)
            => delivered[c][j].len = 0 /\ delivered[c][j].msg = << >>)

(***************************************************************************)
(* SpecTimed: two consumers call wait_for_new_timeout while the producer   *)
(* publishes MaxRegPublish messages, every step interleaved freely         *)
(***************************************************************************)
\* timeout_us: none, and between one slice and two
Timeouts == {0, slice_us + 200}

NextTimed ==
    \/ Len(pubs) < MaxRegPublish /\ PublishBegin({Msg0})
    \/ PublishStep
    \/ \E c \in Consumers :
         \/ AttachConsumer(c)
         \/ TimedWaitEnter(c, Timeouts)
         \/ TimedWaitTurn(c)

SpecTimed == Init /\ [][NextTimed]_vars

\* wait_for_new_timeout has returned on handle c and no token was posted
\* during the call
ReturnedWithoutPost(c) ==
    /\ cons[c].pc = "idle"
    /\ cons[c].got \in {"ok", "timed_out"}
    /\ ch.notify_seq = cons[c].notify_at_entry
    /\ prod.pc # "notify"

\* the steps of wait_for_new_timeout take one token exactly in the return
\* of 'ok' and none otherwise
TokenPerOk ==
    [][\A c \in Consumers :
         (cons[c].pc = "timed_wait" /\ cons'[c] # cons[c]) =>
            /\ cons'[c].pc = "idle" => cons'[c].got \in {"ok", "timed_out"}
            /\ (cons'[c].pc = "idle" /\ cons'[c].got = "ok") <=> new_sem' = new_sem - 1
            /\ (cons'[c].pc = "timed_wait" \/ cons'[c].got = "timed_out")
                   <=> new_sem' = new_sem]_vars

\* C27 as claimed: 'ok' exactly with one token taken, 'timed out' exactly
\* with none, and 'timed out' whenever no token was posted during the call.
C27_TimedOutWithoutPost ==
    /\ TokenPerOk
    /\ [](\A c \in Consumers : ReturnedWithoutPost(c) => cons[c].got = "timed_out")

\* C27: wait_for_new_timeout returns 'ok' exactly when it has taken one token
\* of the notify semaphore and 'timed out' exactly when it has taken none;
\* when the count was 0 at the call and no token was posted during it, it
\* returns 'timed out'.
C27_TimedWait ==
    /\ TokenPerOk
    /\ [](\A c \in Consumers :
            (ReturnedWithoutPost(c) /\ cons[c].sem_at_entry = 0)
            => cons[c].got = "timed_out")

\* C27 witness: with no token at the call and none posted, a call with a
\* timeout above one slice has returned 'timed out' after two turns, and the
\* other consumer's call has returned 'ok' on a token
C27_Witness ==
    /\ cons["c1"].pc = "idle" /\ cons["c1"].got = "timed_out"
    /\ cons["c1"].sem_at_entry = 0 /\ cons["c1"].notify_at_entry = ch.notify_seq
    /\ cons["c1"].timeout_us = slice_us + 200 /\ cons["c1"].waited_us = 2 * slice_us
    /\ cons["c2"].pc = "idle" /\ cons["c2"].got = "ok"

(***************************************************************************)
(* SpecToken: the producer publishes 16-byte messages, with extensions of  *)
(* data.mm and index.mm that succeed or fail, while c1 calls wait_for_new  *)
(* and c2 wait_for_new_timeout, every step interleaved freely              *)
(***************************************************************************)
NextToken ==
    \/ PublishBegin({Msg16})
    \/ PublishStep
    \/ PublishDataExtendFails({Msg16})
    \/ PublishIndexExtendFails
    \/ \E c \in Consumers : AttachConsumer(c)
    \/ WaitEnter("c1")
    \/ WaitReturn("c1")
    \/ TimedWaitEnter("c2", {slice_us})
    \/ TimedWaitTurn("c2")

SpecToken == Init /\ [][NextToken]_vars

\* the publishes that have returned MMQ_ERR_OK
SuccessfulPublishes ==
    IF prod.pc \in {"idle", "closed"} THEN Len(pubs) ELSE Len(pubs) - 1

\* the waits that have returned with a token
SuccessfulWaits == cons["c1"].waits + cons["c2"].waits

\* C28: token accounting. notify_seq is the number of successful publishes,
\* and the count of the notify semaphore is that number less the number of
\* successful waits, never negative.
C28_TokenAccounting ==
    /\ ch.notify_seq = SuccessfulPublishes
    /\ new_sem = SuccessfulPublishes - SuccessfulWaits
    /\ new_sem >= 0

\* C28 witness: two publishes succeeded and one failed, each consumer has
\* taken a token, none is left
C28_Witness ==
    /\ prod.pc = "idle" /\ Len(pubs) = 2 /\ prod.leaked = 1
    /\ cons["c1"].waits = 1 /\ cons["c2"].waits = 1
    /\ new_sem = 0

(***************************************************************************)
(* The producer starts again on the files of an earlier session            *)
(***************************************************************************)
NextRestart ==
    \/ PublishBegin({Msg5})
    \/ PublishStep
    \/ CloseProducer
    \/ InitProducer({max_consumers})
    \/ AttachConsumer("c1")
    \/ RegisterLock("c1", {<<97>>}, {0})
    \/ RegisterStep("c1")
    \/ DrainBegin("c1")
    \/ DrainStep("c1")

SpecRestart == Init /\ [][NextRestart]_vars

\* the step in which an init_producer call on existing files returns
IsRestart == prod'.session # prod.session

\* the sequence numbers published before the last init_producer
EarlierSeqs == 0..(prod.at_init.next_seq - 1)

\* the first publish call of a new session has read seq (line 440)
InFirstPublish ==
    /\ prod.session > 0
    /\ Len(pubs) + prod.leaked = prod.at_init.calls + 1
    /\ prod.pc \in {"e_seq", "e_off8", "e_len", "next_seq", "entry_count", "notify"}

\* the first publish call of a new session has returned MMQ_ERR_OK and its
\* stores went through a valid p->m_ih
FirstPublishStored ==
    /\ prod.session > 0
    /\ Len(pubs) + prod.leaked = prod.at_init.calls + 1
    /\ prod.pc = "idle"
    /\ prod.m_ih = "mapped"

\* in a new session the entries and the payload bytes of the earlier
\* messages are those the files held at init_producer, and next_seq has not
\* gone below them
EarlierMessagesKept ==
    prod.session > 0 =>
        /\ ih.next_seq >= prod.at_init.next_seq
        /\ \A s \in EarlierSeqs : entries[s] = prod.at_init.entries[s]
        /\ \A o \in PayloadOffsets :
              o < prod.at_init.write_pos => payload[o] = prod.at_init.payload[o]

\* a drain that has loaded, inside the consumer's index mapping, the entry
\* of an earlier message holds the entry the file held at init_producer
DrainLoadsEarlierEntry ==
    \A c \in Consumers :
        (/\ prod.session > 0
         /\ cons[c].pc = "drain_inc"
         /\ cons[c].idx \in EarlierSeqs
         /\ SizeofIndexHeader + (cons[c].idx + 1) * SizeofIndexEntry
               <= cons[c].m_index_size)
        => cons[c].e = prod.at_init.entries[cons[c].idx]

\* C29: init_producer on existing index and data files stores nothing into
\* them: next_seq, entry_count, every entry, write_pos, file_size, the
\* payload and the sizes of the files are unchanged. The first publish of the
\* new session takes seq equal to the next_seq the file held, and stores its
\* entry there; the entries and payload of the earlier messages stay as they
\* were, so that a drain reads them.
C29_RestartKeepsQueue ==
    /\ [][IsRestart => UNCHANGED filevars]_vars
    /\ [](InFirstPublish => prod.seq = prod.at_init.next_seq)
    /\ [](FirstPublishStored =>
            /\ ih.next_seq = prod.at_init.next_seq + 1
            /\ entries[prod.at_init.next_seq] =
                  [seq |-> prod.at_init.next_seq,
                   off8 |-> AsU32(prod.pos \div 8), len |-> Len(prod.msg)])
    /\ []EarlierMessagesKept
    /\ []DrainLoadsEarlierEntry

\* C29 witness: the producer started again on an index holding two
\* messages, its first publish took seq 2, and the consumer, attached to the
\* grown index, has drained the two earlier messages and the new one since
C29_Witness ==
    /\ prod.session = 1 /\ prod.pc = "idle" /\ prod.m_ih = "mapped"
    /\ prod.at_init.next_seq = 2 /\ ih.next_seq = 3
    /\ cons["c1"].pc = "idle" /\ cons["c1"].m_index_size = index_fsize
    /\ cons["c1"].slot = 0 /\ slots[0].last_seq = 3
    /\ Len(delivered["c1"]) >= 3
    /\ delivered["c1"][Len(delivered["c1"])].idx = 2
    /\ delivered["c1"][Len(delivered["c1"]) - 1].idx = 1
    /\ delivered["c1"][Len(delivered["c1"]) - 2].idx = 0
    /\ delivered["c1"][Len(delivered["c1"]) - 1].msg = Msg5

(***************************************************************************)
(* The control file across sessions                                        *)
(***************************************************************************)
\* the names init_producer is given for the notify semaphore and for the
\* registry lock: "/n" and "/r", two of 51 characters, one of 51 and one of
\* 52, one of 52 and one of 51
SemNamePairs ==
    {<<NewSemName, RegSemName>>,
     <<(<<47>> \o Rep(110, 50)), (<<47>> \o Rep(114, 50))>>,
     <<(<<47>> \o Rep(110, 50)), (<<47>> \o Rep(114, 51))>>,
     <<(<<47>> \o Rep(110, 51)), (<<47>> \o Rep(114, 50))>>}

\* config.max_consumers of a session
MaxConsumerConfigs == {1, max_consumers}

InitStamp ==
    /\ InitFiles(index_initial_bytes, data_initial_bytes)
    /\ slots = [i \in 0..(max_consumers - 1) |-> ZeroSlot]
    /\ new_sem = 0
    /\ reg_sem = 1
    /\ InitHandles
    /\ \E names \in SemNamePairs :
         /\ ch = StampedHeader(max_consumers, names[1], names[2])
         /\ prod = [InitProducerHandle EXCEPT !.new_sem_name = names[1],
                                              !.reg_sem_name = names[2]]

NextStamp ==
    \/ Len(pubs) < MaxRegPublish /\ PublishBegin({Msg5})
    \/ PublishStep
    \/ CloseProducer
    \/ InitProducer(MaxConsumerConfigs)
    \/ \E c \in Consumers : AttachConsumer(c) \/ RegisterStep(c)
    \/ RegisterLock("c1", {<<97>>}, {0})
    \/ RegisterLock("c2", {Rep(120, 43)}, {0})
    \/ DrainBegin("c1")
    \/ DrainStep("c1")

SpecStamp == InitStamp /\ [][NextStamp]_vars

\* every slot of the table is inactive with last_seq 0 and an empty name,
\* and notify_seq is 0
RegistryEmpty ==
    /\ \A i \in SlotIndices :
          slots[i].active = 0 /\ slots[i].last_seq = 0 /\ CStr(slots[i].name) = << >>
    /\ ch.notify_seq = 0

\* the control header carries the magic and the max_consumers that
\* init_producer was called with
HeaderStamped ==
    /\ ch.magic = MMQ_MAGIC_CONTROL
    /\ ch.version = MMQ_VERSION
    /\ ch.max_consumers = prod.config_max

\* the control header carries the two semaphore names init_producer was
\* given
HeaderCarriesNames ==
    /\ CStr(ch.new_entries_sem) = prod.new_sem_name
    /\ CStr(ch.registry_lock_sem) = prod.reg_sem_name

\* C30: when init_producer has returned MMQ_ERR_OK, on a control file it
\* created (the initial state) or on one that existed (a restart), every
\* slot is inactive with last_seq 0 and an empty name, notify_seq is 0, and
\* the header carries the magic, the configured max_consumers and the two
\* semaphore names the call was given.
C30_ControlReset ==
    /\ RegistryEmpty /\ HeaderStamped /\ HeaderCarriesNames
    /\ [][IsRestart => (RegistryEmpty /\ HeaderStamped /\ HeaderCarriesNames)']_vars

\* the part of C30 that holds: the table is empty and magic and
\* max_consumers are stamped after every init_producer, and the header
\* carries each semaphore name of at most 51 characters
ControlResetUpToNames ==
    /\ RegistryEmpty /\ HeaderStamped
    /\ [][IsRestart => (RegistryEmpty /\ HeaderStamped)']_vars
    /\ [](/\ Len(prod.new_sem_name) < SizeofSemName
             => CStr(ch.new_entries_sem) = prod.new_sem_name
          /\ Len(prod.reg_sem_name) < SizeofSemName
             => CStr(ch.registry_lock_sem) = prod.reg_sem_name)

\* a restart wiped a table in which both slots were claimed and the cursor
\* of slot 0 had advanced; the step before the restart is not part of the
\* state, so this is read off the handles: both consumers were handed a
\* slot and c1 a message, and the table is empty
RestartWipedRegistrations ==
    /\ prod.session = 1 /\ prod.config_max = 1
    /\ cons["c1"].slot = 0 /\ cons["c2"].slot = 1
    /\ Len(delivered["c1"]) = 1
    /\ RegistryEmpty

(***************************************************************************)
(* The order in which slots are claimed (under SpecReg)                    *)
(***************************************************************************)
\* the slots in use
ActiveSlots == {i \in SlotIndices : slots[i].active # 0}

\* the active slots are the first of the table
ActivePrefix == ActiveSlots = 0..(Cardinality(ActiveSlots) - 1)

\* the names the active slots were claimed with: the distinct names
\* registered so far
RegisteredNames == {claimed[i].name : i \in ActiveSlots}

\* lines 389-402: a scan that finds no matching active slot, with an inactive
\* slot left, ends with the lowest inactive slot, now active with
\* last_seq = start_seq
ClaimsLowestInactive(c) ==
    (Scans(c) /\ MatchingSlot(cons[c].name) < 0 /\ ActiveSlots # SlotIndices)
    => /\ cons'[c].slot = Cardinality(ActiveSlots)
       /\ slots'[cons'[c].slot].active = 1
       /\ slots'[cons'[c].slot].last_seq = cons[c].start_seq
       /\ \A i \in SlotIndices : i # cons'[c].slot => slots'[i] = slots[i]

\* C31: a registration whose name matches no active slot claims the
\* lowest-index inactive slot with last_seq = start_seq; the active slots
\* are always the prefix 0..k-1 of the table; and a registration with a name
\* that is not among the k-1 names registered so far receives slot k-1.
C31_SlotOrder ==
    /\ []ActivePrefix
    /\ [][\A c \in Consumers :
            /\ ClaimsLowestInactive(c)
            /\ (Scans(c) /\ cons[c].name \notin RegisteredNames
                         /\ ActiveSlots # SlotIndices)
               => cons'[c].slot = Cardinality(ActiveSlots)]_vars

\* what holds of the order: the first two conjuncts as they are, and the
\* third when the new name and the registered names fit the slot
SlotOrderForFittingNames ==
    /\ []ActivePrefix
    /\ [][\A c \in Consumers :
            /\ ClaimsLowestInactive(c)
            /\ (Scans(c) /\ cons[c].name \notin RegisteredNames
                         /\ ActiveSlots # SlotIndices
                         /\ FitsSlot(cons[c].name)
                         /\ \A n \in RegisteredNames : FitsSlot(n))
               => cons'[c].slot = Cardinality(ActiveSlots)]_vars

(***************************************************************************)
(* Who writes the slot table (under SpecStamp)                             *)
(***************************************************************************)
\* the step is consumer_drain's increment of a cursor (line 484), which is
\* made without the lock by design
AdvancesCursor == \E c \in Consumers : cons[c].pc = "drain_inc" /\ cons'[c].pc = "idle"

\* the step stores into the active flag or the name of slot i, or into its
\* last_seq other than by a drain
WritesSlot(i) ==
    \/ slots'[i].active # slots[i].active
    \/ slots'[i].name # slots[i].name
    \/ slots'[i].last_seq # slots[i].last_seq /\ ~AdvancesCursor

\* the step is taken by a register_consumer call that is between
\* sem_wait(lock) and sem_post(lock)
WriterHoldsLock == reg_sem = 0 /\ \E c \in Consumers : Scans(c)

\* C32: every store to the active flag, the name or the claim-time last_seq
\* of a slot is made by a call that holds the registry lock, however
\* init_producer and the register_consumer calls of attached consumers
\* interleave.
C32_SlotWritesUnderLock ==
    [][\A i \in DOMAIN slots : WritesSlot(i) => WriterHoldsLock]_vars

\* what holds: the stores of register_consumer are made under the lock;
\* those of init_producer (the memset of the control mapping) are not
RegisterWritesUnderLock ==
    [][\A i \in DOMAIN slots : (WritesSlot(i) /\ ~IsRestart) => WriterHoldsLock]_vars

\* init_producer has zeroed the table while a register_consumer call held
\* the lock and had claimed slot 0: the call is about to return slot 0 and
\* MMQ_ERR_OK for a slot that is inactive
ZeroedUnderALockHolder ==
    /\ prod.session = 1
    /\ cons["c1"].pc = "reg_unlock" /\ cons["c1"].slot = 0
    /\ reg_sem = 0
    /\ slots[0].active = 0

(***************************************************************************)
(* The handle after a growth (under SpecGrow)                              *)
(***************************************************************************)
\* lines 427-430: the handle's size of data.mm and the data header's
\* file_size are those of the current mapping of data.mm
DataHandleTracksMapping ==
    /\ prod.m_data_size = data_fsize
    /\ dh.file_size = data_fsize - SizeofDataHeader

\* the handle's size of index.mm is that of the current mapping, and
\* p->m_ih points to its header
IndexHandleTracksMapping ==
    /\ prod.m_index_size = index_fsize
    /\ prod.m_ih = "mapped"

\* a publish that returned MMQ_ERR_OK has left its entry and the header
\* fields in index.mm
LastPublishStored ==
    (prod.pc = "idle" /\ Len(pubs) > 0)
    => /\ ih.next_seq = Len(pubs)
       /\ ih.entry_count = Len(pubs)
       /\ entries[Len(pubs) - 1] = PublishedEntry(Len(pubs) - 1)

\* C33: after a publish has grown index.mm or data.mm, the size the handle
\* tracks and the producer's header pointer are those of the new mapping, so
\* that the entry and the header fields are stored into the file.
C33_HandleTracksMapping ==
    /\ DataHandleTracksMapping
    /\ IndexHandleTracksMapping
    /\ LastPublishStored

\* what holds: the handle follows every growth of data.mm, and the stores
\* reach index.mm as long as p->m_ih points into its mapping
StoredWhileMapped ==
    /\ DataHandleTracksMapping
    /\ (prod.m_ih = "mapped" /\ prod.stray_next_seq = 0) => LastPublishStored

\* the step extends index.mm
ExtendsIndex == index_fsize' # index_fsize

\* the entries index.mm of the given size has room for
IndexCapacity(bytes) == (bytes - SizeofIndexHeader) \div SizeofIndexEntry

\* the extension is made when the mapping of index.mm has no room for the
\* entry of the publish, and adds room for at least 64 Ki entries
ExtensionAsStated ==
    /\ IndexCapacity(index_fsize) <= ih.next_seq
    /\ IndexCapacity(index_fsize') >= IndexCapacity(index_fsize) + GrowEntries

\* C34: publish extends index.mm only when the current mapping of the index
\* lacks room for entry seq, and every extension adds room for at least
\* 64 Ki further entries (so that extensions are at least 64 Ki publishes
\* apart).
C34_IndexExtensions == [][ExtendsIndex => ExtensionAsStated]_vars

\* what holds: an extension made while the handle's m_index_size is the
\* size of the mapping, which is the first of a session, is as stated
FirstExtensionAsStated ==
    [][(ExtendsIndex /\ prod.m_index_size = index_fsize) => ExtensionAsStated]_vars

(***************************************************************************)
(* The flag-based variant of publish and consumer_drain                    *)
(* (c_mmio_windows.cpp 611-695): an entry carries flags; publish stores    *)
(* PENDING, then next_seq, then READY, and consumer_drain passes over the   *)
(* entries that are not READY. SpecFlag: one consumer attaches, registers   *)
(* and drains while the producer publishes into an index with room for     *)
(* every entry, each load and store a step of its own.                     *)
(***************************************************************************)
MMQ_FLAG_PENDING == 1
MMQ_FLAG_READY == 2

\* an index entry of the variant, zeroed
ZeroFlagEntry == [seq |-> 0, off8 |-> 0, len |-> 0, flags |-> 0]

\* the files as init_producer creates them (c_mmio_windows.cpp: the same
\* headers), the entries with their flags word
InitFlag ==
    /\ ih = [next_seq |-> 0, entry_count |-> 0, magic |-> MMQ_MAGIC_INDEX,
             version |-> MMQ_VERSION, align |-> MMQ_ALIGN]
    /\ entries = [s \in EntryIndices |-> ZeroFlagEntry]
    /\ index_fsize = index_initial_bytes
    /\ dh = [write_pos |-> 0, file_size |-> data_initial_bytes - SizeofDataHeader,
             magic |-> MMQ_MAGIC_DATA, version |-> MMQ_VERSION, align |-> MMQ_ALIGN]
    /\ payload = [o \in PayloadOffsets |-> 0]
    /\ data_fsize = data_initial_bytes
    /\ InitRest
    /\ prod = InitProducerHandle

\* c_mmio_windows.cpp 659: e->len = len
FlagEntryLen ==
    /\ prod.pc = "e_len"
    /\ entries' = [entries EXCEPT ![prod.seq].len = Len(prod.msg)]
    /\ prod' = [prod EXCEPT !.pc = "e_flags"]
    /\ UNCHANGED <<ih, index_fsize, dh, payload, data_fsize, ctlvars, semvars, cons,
                   pubs, delivered, claimed>>

\* c_mmio_windows.cpp 660: e->flags = MMQ_FLAG_PENDING
FlagEntryPending ==
    /\ prod.pc = "e_flags"
    /\ entries' = [entries EXCEPT ![prod.seq].flags = MMQ_FLAG_PENDING]
    /\ prod' = [prod EXCEPT !.pc = "next_seq"]
    /\ UNCHANGED <<ih, index_fsize, dh, payload, data_fsize, ctlvars, semvars, cons,
                   pubs, delivered, claimed>>

\* c_mmio_windows.cpp 663: p->ih->entry_count = p->ih->next_seq
FlagEntryCount ==
    /\ prod.pc = "entry_count"
    /\ ih' = [ih EXCEPT !.entry_count = ih.next_seq]
    /\ prod' = [prod EXCEPT !.pc = "ready"]
    /\ UNCHANGED <<entries, index_fsize, dh, payload, data_fsize, ctlvars, semvars,
                   cons, pubs, delivered, claimed>>

\* c_mmio_windows.cpp 665: e->flags = MMQ_FLAG_READY
FlagEntryReady ==
    /\ prod.pc = "ready"
    /\ entries' = [entries EXCEPT ![prod.seq].flags = MMQ_FLAG_READY]
    /\ prod' = [prod EXCEPT !.pc = "notify"]
    /\ UNCHANGED <<ih, index_fsize, dh, payload, data_fsize, ctlvars, semvars, cons,
                   pubs, delivered, claimed>>

\* c_mmio_windows.cpp 611-672: the stores of the variant's publish in
\* program order. The copy, write_pos, the index room test and the stores
\* of seq and off8 are those of c_mmmq.cpp.
FlagPublishStep ==
    \/ PublishCopy \/ PublishWritePos \/ PublishIndexRoom \/ PublishEntrySeq
    \/ PublishEntryOff8 \/ FlagEntryLen \/ FlagEntryPending \/ PublishNextSeq
    \/ FlagEntryCount \/ FlagEntryReady \/ PublishNotify

\* c_mmio_windows.cpp 678: nseq = ih->next_seq, read once per call
FlagDrainBegin(c) ==
    /\ cons[c].pc = "idle"
    /\ cons[c].slot >= 0
    /\ cons' = [cons EXCEPT ![c].pc = "fdrain_cmp", ![c].nseq = ih.next_seq]
    /\ UNCHANGED <<filevars, ctlvars, semvars, prod, pubs, delivered, claimed>>

\* c_mmio_windows.cpp 679, 694: while (self->last_seq < nseq) ... return false
FlagDrainCompare(c) ==
    /\ cons[c].pc = "fdrain_cmp"
    /\ cons' = IF HasMessage(slots[cons[c].slot].last_seq, cons[c].nseq)
               THEN [cons EXCEPT ![c].pc = "fdrain_entry"]
               ELSE [cons EXCEPT ![c].pc = "idle", ![c].got = "false"]
    /\ UNCHANGED <<filevars, ctlvars, semvars, prod, pubs, delivered, claimed>>

\* the flags word says READY
IsReady(flags) == (flags \div MMQ_FLAG_READY) % 2 = 1

\* c_mmio_windows.cpp 681-682: e = &entries[self->last_seq]; the load of
\* e->flags decides between the skip and the return
FlagDrainEntry(c) ==
    /\ cons[c].pc = "fdrain_entry"
    /\ LET i == slots[cons[c].slot].last_seq
       IN  cons' = [cons EXCEPT ![c].pc = IF IsReady(entries[i].flags)
                                          THEN "fdrain_inc" ELSE "fdrain_skip",
                                ![c].idx = i]
    /\ UNCHANGED <<filevars, ctlvars, semvars, prod, pubs, delivered, claimed>>

\* c_mmio_windows.cpp 683-685: skip non-ready: self->last_seq++; continue
FlagDrainSkip(c) ==
    /\ cons[c].pc = "fdrain_skip"
    /\ slots' = [slots EXCEPT ![cons[c].slot].last_seq = AdvanceCursor(@)]
    /\ cons' = [cons EXCEPT ![c].pc = "fdrain_cmp"]
    /\ UNCHANGED <<filevars, ch, semvars, prod, pubs, delivered, claimed>>

\* c_mmio_windows.cpp 687-692: self->last_seq++; off = e->off8 << 3;
\* msg_len = e->len; return true. The entry is READY: its fields are not
\* stored to any more.
FlagDrainAdvance(c) ==
    /\ cons[c].pc = "fdrain_inc"
    /\ LET e == entries[cons[c].idx]
       IN  /\ cons' = [cons EXCEPT ![c].pc = "idle", ![c].nseq = 0, ![c].idx = 0,
                                   ![c].got = "true",
                                   ![c].msg_data = e.off8 * 8,
                                   ![c].msg_len = e.len]
           /\ delivered' = [delivered EXCEPT ![c] =
                               Append(@, [idx |-> cons[c].idx, seq |-> e.seq,
                                          off8 |-> e.off8, len |-> e.len,
                                          msg |-> PayloadAt(e.off8 * 8, e.len)])]
    /\ slots' = [slots EXCEPT ![cons[c].slot].last_seq = AdvanceCursor(@)]
    /\ UNCHANGED <<filevars, ch, semvars, prod, pubs, claimed>>

FlagDrainStep(c) ==
    \/ FlagDrainCompare(c) \/ FlagDrainEntry(c) \/ FlagDrainSkip(c)
    \/ FlagDrainAdvance(c)

\* publishes are made while the index has room: the growth of the index is
\* not part of the variant's protocol
NextFlag ==
    \/ Len(pubs) < InitEntries /\ PublishBegin({Msg5})
    \/ FlagPublishStep
    \/ AttachConsumer("c1")
    \/ RegisterLock("c1", {<<97>>}, StartSeqs)
    \/ RegisterStep("c1")
    \/ FlagDrainBegin("c1")
    \/ FlagDrainStep("c1")

FairFlag == WF_vars(FlagDrainStep("c1")) /\ WF_vars(FlagDrainBegin("c1"))
              /\ WF_vars(FlagPublishStep)

SpecFlag == InitFlag /\ [][NextFlag]_vars /\ FairFlag

\* the sequence numbers consumer_drain has returned to c since it registered
ReturnedSeqs(c) == {delivered[c][k].idx : k \in 1..Len(delivered[c])}

\* the cursor of c has passed s since c registered
Passed(c, s) == cons[c].reg_seq <= s /\ s < slots[cons[c].slot].last_seq

\* C35: in the flag-based variant no entry the producer marks READY is
\* skipped: every sequence number below next_seq whose entry is READY and
\* that the cursor of a registered consumer has passed since its
\* registration was returned to that consumer by a drain.
C35_NoReadySkipped ==
    \A c \in Consumers :
        (cons[c].pc # "closed" /\ cons[c].slot >= 0 /\ cons[c].pc # "reg_unlock")
        => \A s \in EntryIndices :
             (Passed(c, s) /\ s < ih.next_seq /\ IsReady(entries[s].flags))
             => s \in ReturnedSeqs(c)

\* what holds of the variant: an entry that a drain returns is READY and
\* complete, with the seq, offset and length of its publish
ReturnedEntriesComplete ==
    \A c \in Consumers : \A k \in 1..Len(delivered[c]) :
        LET d == delivered[c][k]
        IN  /\ d.idx < ih.next_seq
            /\ d.seq = d.idx
            /\ d.off8 = pubs[d.idx + 1].pos \div 8
            /\ d.msg = pubs[d.idx + 1].msg

(***************************************************************************)
(* The loads of consumer_drain and the consumer's mappings (under Spec)    *)
(***************************************************************************)
\* the entry consumer_drain of c has loaded lies inside the mapping of
\* index.mm that c made at attach
EntryInsideMapping(c) ==
    cons[c].pc = "drain_inc"
    => SizeofIndexHeader + (cons[c].idx + 1) * SizeofIndexEntry <= cons[c].m_index_size

\* the range consumer_drain has returned to c lies inside the mapping of
\* data.mm that c made at attach
RangeInsideMapping(c) ==
    (cons[c].pc = "idle" /\ cons[c].got = "true" /\ cons[c].msg_data # nullptr)
    => SizeofDataHeader + cons[c].msg_data + cons[c].msg_len <= cons[c].m_data_size

\* C36: every index entry consumer_drain reads and every (pointer, length)
\* range it returns lies inside the mappings of index.mm and data.mm the
\* consumer made at attach, also when the producer has grown a file since.
C36_DrainInsideMappings ==
    \A c \in Consumers : EntryInsideMapping(c) /\ RangeInsideMapping(c)

\* what holds: a consumer whose mappings have the sizes of the files reads
\* its entries inside the mapping of index.mm
InsideWhileFilesUnchanged ==
    \A c \in Consumers :
        (cons[c].m_index_size = index_fsize /\ cons[c].pc = "drain_inc")
        => EntryInsideMapping(c)

(***************************************************************************)
(* SpecShare: two handles register under one name and share slot 0; both   *)
(* drain while the producer publishes into an index with room for every    *)
(* entry, each load and store a step of its own.                           *)
(***************************************************************************)
\* line 484, self->m_last_seq++ compiled as a store of the value loaded for
\* line 479 plus one: the increment is not atomic, and nothing makes the
\* compiler load the cursor again
DrainAdvanceFromLoaded(c) ==
    /\ cons[c].pc = "drain_inc"
    /\ slots' = [slots EXCEPT ![cons[c].slot].last_seq = AdvanceCursor(cons[c].idx)]
    /\ cons' = [cons EXCEPT ![c].pc = "idle", ![c].nseq = 0, ![c].idx = 0,
                            ![c].e = ZeroEntry, ![c].got = "true",
                            ![c].msg_data = cons[c].e.off8 * 8,
                            ![c].msg_len = cons[c].e.len]
    /\ delivered' = [delivered EXCEPT ![c] =
                        Append(@, [idx |-> cons[c].idx, seq |-> cons[c].e.seq,
                                   off8 |-> cons[c].e.off8, len |-> cons[c].e.len,
                                   msg |-> PayloadAt(cons[c].e.off8 * 8, cons[c].e.len)])]
    /\ UNCHANGED <<filevars, ch, semvars, prod, pubs, claimed>>

NextShare ==
    \/ Len(pubs) < InitEntries /\ PublishBegin({Msg5})
    \/ PublishStep
    \/ \E c \in Consumers :
         \/ AttachConsumer(c)
         \/ cons[c].slot < 0 /\ RegisterLock(c, {<<97>>}, {0})
         \/ RegisterStep(c)
         \/ DrainBegin(c)
         \/ DrainStep(c)
         \/ DrainAdvanceFromLoaded(c)

SpecShare == Init /\ [][NextShare]_vars

\* the drains that have returned true
TrueDrains == Len(delivered["c1"]) + Len(delivered["c2"])

\* C37: when two handles registered under the same name share a slot and
\* drain concurrently, no sequence number is returned to both, and the
\* slot's last_seq has increased by one for every drain that returned true.
C37_SharedSlotDrains ==
    /\ \A k \in 1..Len(delivered["c1"]), j \in 1..Len(delivered["c2"]) :
         delivered["c1"][k].idx # delivered["c2"][j].idx
    /\ slots[0].active # 0 => slots[0].last_seq = TrueDrains

\* what holds for the shared slot: as long as only one of the two handles
\* has had a drain past its compare, that handle was returned the entries
\* 0, 1, ... in order, each as its publish stored it, and the cursor counts
\* them
SoleDrainerInOrder ==
    \A c, d \in Consumers :
        (/\ c # d /\ Len(delivered[d]) = 0
         /\ cons[d].pc \notin {"drain_entry", "drain_inc"}
         /\ cons[d].got # "true")
        => /\ slots[0].active # 0 => slots[0].last_seq = Len(delivered[c])
           /\ \A k \in 1..Len(delivered[c]) :
                /\ delivered[c][k].idx = k - 1
                /\ [seq |-> delivered[c][k].seq, off8 |-> delivered[c][k].off8,
                    len |-> delivered[c][k].len] = PublishedEntry(k - 1)

(***************************************************************************)
(* SpecTimer: no message is published; a consumer calls                    *)
(* wait_for_new_timeout with timeouts up to the largest value of the       *)
(* counter's type. A call under way takes its next turn.                   *)
(***************************************************************************)
\* the largest value of the type of timeout_us and waited_us
TimerMax == 2 ^ TimerBits - 1

\* timeout_us: 0, 1, one slice, one slice and 1, a value below the largest
\* by more than a slice, values within a slice of the largest, the largest
LongTimeouts ==
    {0, 1, slice_us, slice_us + 1, TimerMax - slice_us - 95, TimerMax - 5,
     TimerMax - 3, TimerMax}

NextTimer ==
    \/ AttachConsumer("c1")
    \/ TimedWaitEnter("c1", LongTimeouts)
    \/ TimedWaitTurn("c1")

FairTimer == WF_vars(TimedWaitTurn("c1"))

SpecTimer == Init /\ [][NextTimer]_vars /\ FairTimer

\* ceil(a / b)
CeilDiv(a, b) == (a + b - 1) \div b

\* the call with timeout t has returned 'timed out' after ceil(t / 500)
\* turns of one slice each
TimedOutAfter(c, t) ==
    /\ cons[c].pc = "idle" /\ cons[c].got = "timed_out"
    /\ cons[c].timeout_us = t
    /\ cons[c].waited_us = slice_us * CeilDiv(t, slice_us)

\* C38: with no token ever posted, wait_for_new_timeout returns 'timed out'
\* for every timeout_us of the type, after ceil(timeout_us / 500) trywait
\* attempts (none for 0), each followed by one slice added to waited_us.
C38_TimedWaitTerminates ==
    \A t \in LongTimeouts :
        (cons["c1"].pc = "timed_wait" /\ cons["c1"].timeout_us = t
                                      /\ cons["c1"].waited_us = 0)
        ~> TimedOutAfter("c1", t)

\* what holds: the same for every timeout_us that is at most the largest
\* multiple of slice_us the type holds
TimedWaitTerminatesBelowWrap ==
    \A t \in LongTimeouts :
        (cons["c1"].pc = "timed_wait" /\ cons["c1"].timeout_us = t
                                      /\ cons["c1"].waited_us = 0
                                      /\ slice_us * CeilDiv(t, slice_us) <= TimerMax)
        ~> TimedOutAfter("c1", t)

(***************************************************************************)
(* the size of control.mm against the stamped max_consumers                *)
(***************************************************************************)
\* line 222: sizeof(control_header_t)
SizeofControlHeader == 128

\* lines 64-71: sizeof(consumer_slot_t)
SizeofSlot == 64

\* line 289: control_bytes is aligned up to 1 KiB
ControlAlign == 1024

\* lines 288-289: the size control.mm is created with
control_bytes(maxc) ==
    align_up_u64(SizeofControlHeader + (SizeofSlot * maxc), ControlAlign)

\* line 177: the slots follow the header; the whole slots a mapping of
\* `bytes` bytes holds
ControlSlots(bytes) == (bytes - SizeofControlHeader) \div SizeofSlot

\* line 297: m_control_size = nmmio::size(m_control). The slots of the model
\* are the slots of the file.
ControlMappingBytes == SizeofControlHeader + (SizeofSlot * Cardinality(DOMAIN slots))

\* lines 280-293 in the first session: control.mm does not exist and is
\* created with control_bytes(max_consumers) bytes, which is room for more
\* slots than max_consumers
InitControl ==
    /\ InitFiles(index_initial_bytes, data_initial_bytes)
    /\ ch = StampedHeader(max_consumers, NewSemName, RegSemName)
    /\ slots = [i \in 0..(ControlSlots(control_bytes(max_consumers)) - 1) |-> ZeroSlot]
    /\ new_sem = 0
    /\ reg_sem = 1
    /\ cons = [c \in Consumers |-> ClosedHandle]
    /\ pubs = << >>
    /\ delivered = [c \in Consumers |-> << >>]
    /\ claimed = [i \in DOMAIN slots |-> NoClaim]
    /\ prod = InitProducerHandle

\* the max_consumers a later session is configured with: the one of the
\* first session, the most the file holds, and one more
ControlConfigs ==
    {max_consumers, ControlSlots(control_bytes(max_consumers)),
     ControlSlots(control_bytes(max_consumers)) + 1}

SlotsInsideMapping == SlotIndices \subseteq DOMAIN slots

\* the k-th consumer name of a run: one letter, a new one per active slot
NextName == << 97 + Cardinality({i \in DOMAIN slots : slots[i].active # 0}) >>

\* lines 368-402 when m_max_consumers slots do not fit the mapping. The
\* first loop ends early at a slot of the same name (378-382); otherwise it
\* loads m_active of every slot below maxc, the ones behind the mapping
\* included. That load faults, or reads the zero bytes behind the end of
\* the file, or reads other bytes that compare unequal; a store behind the
\* mapping (395-397) reaches no file.
RegisterScanOutside(c) ==
    /\ cons[c].pc = "reg_scan"
    /\ ~ SlotsInsideMapping
    /\ LET name == cons[c].name
           inside == SlotIndices \cap DOMAIN slots
           m == {i \in inside : slots[i].active # 0
                                /\ strncmp_eq(slots[i].name, name, SizeofSlotName)}
           f == {i \in inside : slots[i].active = 0}
           behind == Min(SlotIndices \ DOMAIN slots)
           Done(slot, newslots, seq) ==
               /\ slots' = newslots
               /\ claimed' = IF slots' # slots
                             THEN [claimed EXCEPT ![slot] = [name |-> name,
                                                     start_seq |-> cons[c].start_seq]]
                             ELSE claimed
               /\ cons' = [cons EXCEPT ![c].pc = "reg_unlock", ![c].slot = slot,
                                       ![c].reg_name = name, ![c].reg_seq = seq]
               /\ delivered' = [delivered EXCEPT ![c] = << >>]
       IN  IF m # {}
           THEN Done(Min(m), slots, slots[Min(m)].last_seq)
           ELSE \/ /\ cons' = [cons EXCEPT ![c].pc = "crashed"]
                   /\ UNCHANGED <<slots, claimed, delivered>>
                \/ IF f # {}
                   THEN Done(Min(f),
                             [slots EXCEPT ![Min(f)] =
                                 ClaimedSlot(@, name, cons[c].start_seq)],
                             cons[c].start_seq)
                   ELSE \/ Done(behind, slots, cons[c].start_seq)
                        \/ Done(-1, slots, 0)
    /\ UNCHANGED <<filevars, ch, semvars, prod, pubs>>

NextControl ==
    \/ CloseProducer
    \/ InitProducer(ControlConfigs)
    \/ AttachConsumer("c1")
    \/ RegisterLock("c1", {NextName}, {0})
    \/ (SlotsInsideMapping /\ RegisterScan("c1"))
    \/ RegisterScanOutside("c1")
    \/ RegisterUnlock("c1")

SpecControl == InitControl /\ [][NextControl]_vars

\* C39: whenever the control header is stamped, the control mapping holds
\* the header and max_consumers slots, so every slot index below the stamped
\* max_consumers lies inside the mapping, also in a session that found
\* control.mm created for fewer consumers
C39_ControlHoldsSlots ==
    /\ SizeofControlHeader + (ch.max_consumers * SizeofSlot) <= ControlMappingBytes
    /\ SlotsInsideMapping

\* the session that creates control.mm, and a later one configured with no
\* more consumers than the file holds, have every slot inside the mapping
ControlHoldsSlotsOfFittingConfig ==
    (prod.config_max <= ControlSlots(control_bytes(max_consumers)))
        => (/\ SizeofControlHeader + (ch.max_consumers * SizeofSlot) <= ControlMappingBytes
            /\ SlotsInsideMapping)

\* never: register_consumer returns a slot behind the control mapping
NoSlotBehindMapping ==
    \A c \in Consumers : cons[c].slot >= 0 => cons[c].slot \in DOMAIN slots

(***************************************************************************)
(* the width of m_off8 against the write position                          *)
(***************************************************************************)
\* line 458: the cast (u32) to the field m_off8, the field Off8Bits wide
AsOff8(x) == x % (2 ^ Off8Bits)

\* line 458: e->m_off8 = (u32)(pos >> 3), nothing compares pos >> 3 with
\* the range of the field before the store
PublishEntryOff8Narrow ==
    /\ prod.pc = "e_off8"
    /\ entries' = IF prod.m_ih = "mapped"
                  THEN [entries EXCEPT ![prod.seq].off8 = AsOff8(prod.pos \div 8)]
                  ELSE entries
    /\ prod' = [prod EXCEPT !.pc = "e_len"]
    /\ UNCHANGED <<ih, index_fsize, dh, payload, data_fsize, ctlvars, semvars, cons,
                   pubs, delivered, claimed>>

\* lines 433-469 with the narrow field
NarrowPublishStep ==
    \/ PublishCopy \/ PublishWritePos \/ PublishIndexRoom \/ PublishEntrySeq
    \/ PublishEntryOff8Narrow \/ PublishEntryLen \/ PublishNextSeq \/ PublishEntryCount
    \/ PublishNotify

\* data.mm with room for the payload of every publish of the run
narrow_data_bytes == SizeofDataHeader + (InitEntries * 16)

InitNarrow ==
    /\ InitFiles(index_initial_bytes, narrow_data_bytes)
    /\ InitRest
    /\ prod = InitProducerHandle

\* publishes are made while both files have room, so that no file grows
NextNarrow ==
    \/ Len(pubs) < InitEntries /\ PublishBegin({Msg5, Msg16})
    \/ NarrowPublishStep
    \/ AttachConsumer("c1")
    \/ RegisterLock("c1", {<<97>>}, {0})
    \/ RegisterStep("c1")
    \/ DrainBegin("c1")
    \/ DrainStep("c1")

SpecNarrow == InitNarrow /\ [][NextNarrow]_vars

\* the byte position publish s wrote its payload at
PublishedPos(s) == pubs[s + 1].pos

\* pos >> 3 fits the field m_off8
FitsOff8(pos) == (pos \div 8) < 2 ^ Off8Bits

\* C40: for every committed entry s, (entries[s].off8 << 3) is the byte
\* position at which publish s wrote its payload, and no committed entry has
\* a position whose pos >> 3 does not fit the field off8
C40_Off8IsPosition ==
    \A s \in EntryIndices :
        s < ih.next_seq
        => /\ entries[s].off8 * 8 = PublishedPos(s)
           /\ FitsOff8(PublishedPos(s))

\* a committed entry whose position fits the field carries that position
Off8ExactWhenFitting ==
    \A s \in EntryIndices :
        (s < ih.next_seq /\ FitsOff8(PublishedPos(s)))
        => entries[s].off8 * 8 = PublishedPos(s)

\* never: consumer_drain returns for entry s bytes that are not the message
\* of publish s
DrainReturnsPublished ==
    \A i \in DOMAIN delivered["c1"] :
        delivered["c1"][i].msg = pubs[delivered["c1"][i].idx + 1].msg
====
